---- MODULE Spec2Model ----
(***************************************************************************)
(* Model of the analysis pipeline of backend/python/video_analysis_service *)
(* (ClipChimp): the response parsers, the section-identification retry     *)
(* loop, the per-section analyzer and the pipeline controller.             *)
(*                                                                         *)
(* Text is a sequence of atoms.  An atom is a string standing for one      *)
(* character of punctuation or white space, or for one indivisible word.   *)
(* Python's substring tests on the text become tests on adjacent atoms.    *)
(***************************************************************************)
EXTENDS Integers, Sequences, FiniteSets, TLC

VARIABLES
    p_kind,      \* which parser runs: "sections" or "quotes"
    p_resp,      \* the response text handed to the parser
    p_pc,        \* "structured", "legacy", "done"
    p_trace,     \* the stages entered so far, in order
    p_ret,       \* the list the parser returned (meaningful when p_pc = "done")
    p_raised     \* TRUE when an exception left the parser

pvars == <<p_kind, p_resp, p_pc, p_trace, p_ret, p_raised>>

\* One invocation of the service with the analyze command.
VARIABLES
    provider,           \* the command's ai_provider
    api_key,            \* TRUE when the command carries a non-empty api_key
    categories,         \* the command's categories: given or not, and the list
    cmd_segments,           \* the command's segments
    cmd_text,           \* the command's transcript_text
    output_file,        \* the output file, as a sequence of parts
    file_log,           \* the lines logged about writes to the file
    may_fail,           \* how many writes to the file after the header may fail
    pc,                 \* where control is
    all_chunks,             \* the chunks of the transcript
    chunk_i,                  \* the number of the chunk in hand
    attempt,            \* the attempt of its identification that comes next
    todo,               \* its identified sections still to process
    analyzed_sections,
    failed_chunks,
    completed_chunks,
    stdout,                \* the lines written to standard output
    result,             \* what analyze_with_ai returned
    raised,             \* TRUE when analyze_with_ai raised
    exit_code,          \* the exit status; -1 while running
    probes,             \* history: requests issued by the availability probe
    infer,              \* history: calls of call_ai
    ident,              \* history: per chunk, attempts and calls of identification,
                        \* and the non-routine sections it found
    cfg                 \* history: configuration errors raised, network calls before the first

avars == <<provider, api_key, categories, cmd_segments, cmd_text, output_file, file_log,
           may_fail,
           pc, all_chunks, chunk_i, attempt, todo, analyzed_sections, failed_chunks,
           completed_chunks, stdout, result, raised, exit_code,
           probes, infer, ident, cfg>>

\* One call of a function of the service on its own.
VARIABLES
    f_pc,               \* "idle", "call" before the call, "done" after it
    f_args,             \* the arguments of the call
    f_ret               \* what the call returned

fvars == <<f_pc, f_args, f_ret>>

vars == <<p_kind, p_resp, p_pc, p_trace, p_ret, p_raised, provider, api_key,
          categories, cmd_segments, cmd_text, output_file, file_log, may_fail, pc, all_chunks, chunk_i, attempt, todo,
          analyzed_sections, failed_chunks, completed_chunks, stdout, result,
          raised, exit_code, probes, infer, ident, cfg, f_pc, f_args, f_ret>>

\* No function is called on its own.
FIdle == f_pc = "idle" /\ f_args = <<>> /\ f_ret = <<>>

\* ------------------------------------------------------------------ values
\* A decoded JSON value / Python object: t is the type tag, s the atoms of a
\* string (or of a pair's key), c the children (list items, dict pairs, a
\* pair's value).
Str(s) == [t |-> "str", s |-> s, c |-> <<>>]
Num == [t |-> "num", s |-> <<>>, c |-> <<>>]
Null == [t |-> "null", s |-> <<>>, c |-> <<>>]
Arr(items) == [t |-> "arr", s |-> <<>>, c |-> items]
Pair(k, v) == [t |-> "pair", s |-> k, c |-> <<v>>]
Obj(pairs) == [t |-> "obj", s |-> <<>>, c |-> pairs]

\* dict.__contains__: k is the atom naming the key.
HasKey(d, k) == \E n \in 1..Len(d.c) : d.c[n].s = <<k>>

\* dict[k]: the value bound last to k (json.loads keeps the last duplicate).
Get(d, k) ==
    LET n == CHOOSE n \in 1..Len(d.c) :
                 /\ d.c[n].s = <<k>>
                 /\ \A m \in (n+1)..Len(d.c) : d.c[m].s # <<k>>
    IN d.c[n].c[1]

\* ------------------------------------------------------------- json.loads
WS == {" ", "\n"}
NumAtoms == {"5"}

\* The least element of a non-empty set of integers.
Min(S) == CHOOSE x \in S : \A y \in S : x <= y
Max(S) == CHOOSE x \in S : \A y \in S : x >= y

\* The index of the first atom at or after i that is not white space, or
\* Len(t) + 1.
SkipWs(t, i) ==
    IF i > Len(t) THEN i
    ELSE CHOOSE j \in i..(Len(t) + 1) :
            /\ j = Len(t) + 1 \/ t[j] \notin WS
            /\ \A k \in i..(j - 1) : t[k] \in WS

JFail == [ok |-> FALSE, v |-> Null, i |-> 0]
JOk(v, i) == [ok |-> TRUE, v |-> v, i |-> i]

\* The index of the next quote atom at or after i, or 0.
NextQuote(t, i) ==
    IF \A j \in i..Len(t) : t[j] # "\"" THEN 0
    ELSE CHOOSE j \in i..Len(t) : t[j] = "\"" /\ \A k \in i..(j - 1) : t[k] # "\""

\* t[j] is an opening quote.  A raw newline inside a string is a control
\* character, which the strict decoder rejects.
ParseString(t, j) ==
    LET k == NextQuote(t, j + 1) IN
    IF k = 0 THEN JFail
    ELSE IF \E m \in (j+1)..(k-1) : t[m] = "\n" THEN JFail
    ELSE JOk(Str(SubSeq(t, j + 1, k - 1)), k + 1)

RECURSIVE ParseValue(_, _)
RECURSIVE ParseItems(_, _, _)
RECURSIVE ParsePairs(_, _, _)

\* Items of an array after the opening bracket or after a comma; acc holds
\* the items decoded so far.
ParseItems(t, i, acc) ==
    LET r == ParseValue(t, i) IN
    IF ~r.ok THEN JFail
    ELSE LET j == SkipWs(t, r.i) IN
         IF j > Len(t) THEN JFail
         ELSE IF t[j] = "," THEN ParseItems(t, j + 1, Append(acc, r.v))
         ELSE IF t[j] = "]" THEN JOk(Arr(Append(acc, r.v)), j + 1)
         ELSE JFail

\* Pairs of an object after the opening brace or after a comma.
ParsePairs(t, i, acc) ==
    LET j == SkipWs(t, i) IN
    IF j > Len(t) \/ t[j] # "\"" THEN JFail
    ELSE LET k == ParseString(t, j) IN
         IF ~k.ok THEN JFail
         ELSE LET c == SkipWs(t, k.i) IN
              IF c > Len(t) \/ t[c] # ":" THEN JFail
              ELSE LET r == ParseValue(t, c + 1) IN
                   IF ~r.ok THEN JFail
                   ELSE LET e == SkipWs(t, r.i)
                            acc2 == Append(acc, Pair(k.v.s, r.v))
                        IN IF e > Len(t) THEN JFail
                           ELSE IF t[e] = "," THEN ParsePairs(t, e + 1, acc2)
                           ELSE IF t[e] = "}" THEN JOk(Obj(acc2), e + 1)
                           ELSE JFail

ParseValue(t, i) ==
    LET j == SkipWs(t, i) IN
    IF j > Len(t) THEN JFail
    ELSE IF t[j] = "\"" THEN ParseString(t, j)
    ELSE IF t[j] \in NumAtoms THEN JOk(Num, j + 1)
    ELSE IF t[j] = "null" THEN JOk(Null, j + 1)
    ELSE IF t[j] = "[" THEN
        LET e == SkipWs(t, j + 1) IN
        IF e <= Len(t) /\ t[e] = "]" THEN JOk(Arr(<<>>), e + 1)
        ELSE ParseItems(t, j + 1, <<>>)
    ELSE IF t[j] = "{" THEN
        LET e == SkipWs(t, j + 1) IN
        IF e <= Len(t) /\ t[e] = "}" THEN JOk(Obj(<<>>), e + 1)
        ELSE ParsePairs(t, j + 1, <<>>)
    ELSE JFail

\* json.loads(text): ok is FALSE where the decoder raises JSONDecodeError
\* (no value, or extra data after the value).
json_loads(t) ==
    LET r == ParseValue(t, 1) IN
    IF r.ok /\ SkipWs(t, r.i) > Len(t) THEN r ELSE JFail

\* ------------------------------------------------------------ text helpers
\* The first index at or after i where the atoms of pat occur in t, or 0:
\* str.find / the test "pat in t".
Find(t, pat, i) ==
    LET Here(j) == \A k \in 1..Len(pat) : t[j + k - 1] = pat[k]
        S == {j \in i..(Len(t) - Len(pat) + 1) : Here(j)}
    IN IF S = {} THEN 0 ELSE Min(S)

Contains(t, pat) == Find(t, pat, 1) # 0

\* str.split(pat): the pieces between the non-overlapping occurrences of pat.
RECURSIVE Split(_, _)
Split(t, pat) ==
    LET i == Find(t, pat, 1) IN
    IF i = 0 THEN <<t>>
    ELSE <<SubSeq(t, 1, i - 1)>> \o Split(SubSeq(t, i + Len(pat), Len(t)), pat)

Tail1(seq) == SubSeq(seq, 2, Len(seq))

\* str.strip(chars)
LStrip(t, chars) ==
    SubSeq(t, Min({j \in 1..Len(t) : t[j] \notin chars} \cup {Len(t) + 1}), Len(t))
RStrip(t, chars) ==
    SubSeq(t, 1, Max({j \in 1..Len(t) : t[j] \notin chars} \cup {0}))
Strip(t, chars) == RStrip(LStrip(t, chars), chars)

\* The atom "@" stands for the capital dotted I (U+0130), one character whose
\* lower case is two: "i" and the combining dot (U+0307), written "i^".
DottedI == "@"

\* str.lower() of one atom: the atoms of the texts that have a capital, each
\* with its lower case; every other atom is in lower case already.
Lower(a) ==
    CASE a \in {"Start", "START"} -> "start"
      [] a = DottedI -> "i^"
      [] a \in {"End", "END"} -> "end"
      [] a \in {"Category", "CATEGORY"} -> "category"
      [] a \in {"Description", "DESCRIPTION"} -> "description"
      [] a \in {"Quote", "QUOTE"} -> "quote"
      [] a \in {"Quotes", "QUOTES"} -> "quotes"
      [] a \in {"Section", "SECTION"} -> "section"
      [] a \in {"Sections", "SECTIONS"} -> "sections"
      [] a \in {"Interesting", "INTERESTING"} -> "interesting"
      [] a \in {"Boring", "BORING"} -> "boring"
      [] a \in {"Significance", "SIGNIFICANCE"} -> "significance"
      [] a \in {"Timestamp", "TIMESTAMP"} -> "timestamp"
      [] a \in {"Key", "KEY"} -> "key"
      [] a \in {"Here", "HERE"} -> "here"
      [] a \in {"Done", "DONE"} -> "done"
      [] a \in {"Hello", "HELLO"} -> "hello"
      [] a \in {"Music", "MUSIC"} -> "music"
      [] a = "An" -> "an"
      [] a = "Ann" -> "ann"
      [] a = "I" -> "i"
      [] a = "III" -> "iii"
      [] a = "I'm" -> "i'm"
      [] a = "Analyze" -> "analyze"
      [] a = "None" -> "none"
      [] OTHER -> a

\* The index of the last atom a of t, or 0.
LastIdx(t, a) == Max({j \in 1..Len(t) : t[j] = a} \cup {0})

\* re.search(r'\{[\s\S]*"key"[\s\S]*\}', t): the match is leftmost and greedy,
\* from the first opening brace to the last closing brace, and exists when
\* the quoted key lies between them.  The match, or <<>> for None.
re_search(t, key) ==
    LET b == Find(t, <<"{">>, 1)
        e == LastIdx(t, "}")
    IN IF b # 0 /\ \E k \in (b+1)..(e-3) : SubSeq(t, k, k + 2) = <<"\"", key, "\"">>
       THEN SubSeq(t, b, e) ELSE <<>>

\* dict[k] = v, keeping the position of an existing key.
SetKey(d, k, v) ==
    IF HasKey(d, k)
    THEN Obj([n \in 1..Len(d.c) |-> IF d.c[n].s = <<k>> THEN Pair(<<k>>, v) ELSE d.c[n]])
    ELSE Obj(Append(d.c, Pair(<<k>>, v)))

\* ------------------------------------------------------- structured stage
SECTION_KEYS == <<"start_phrase", "end_phrase", "category", "description">>
QUOTE_KEYS == <<"timestamp", "text", "significance">>

\* Python's "k in e" for a decoded entry e.  It is a key test on a dict, a
\* substring test on a str, a membership test on a list, and raises
\* TypeError on a number or None.
InRaises(e) == e.t \in {"num", "null"}
In(k, e) ==
    CASE e.t = "obj" -> HasKey(e, k)
      [] e.t = "str" -> Contains(e.s, <<k>>)
      [] e.t = "arr" -> \E n \in 1..Len(e.c) : e.c[n] = Str(<<k>>)
      [] OTHER -> FALSE

AllIn(keys, e) == \A n \in 1..Len(keys) : In(keys[n], e)

\* The debug line printed for an entry that passed the field test:
\* section['category'] and section['description'][:50] for a section,
\* quote['timestamp'] for a quote.  Indexing a str or a list with a key
\* raises TypeError, so does slicing a number, None or a dict.
PrintRaises(kind, e) ==
    IF e.t # "obj" THEN TRUE
    ELSE IF kind = "sections" THEN Get(e, "description").t \notin {"str", "arr"}
    ELSE FALSE

\* One iteration of the validation loop raises.
EntryRaises(kind, keys, e) ==
    \/ InRaises(e)
    \/ AllIn(keys, e) /\ PrintRaises(kind, e)

\* A handler that lets the exception go on to the caller.
CaughtReraises(local) == [out |-> "raise", val |-> local]

\* The outer "except Exception" handler: the exception is logged and the
\* function goes on to "return sections" with the local as it stands.
Caught(local) == [out |-> "return", val |-> local]

\* The text holds a JSON object that decodes and whose top-level key carries
\* a list.
HasList(kind, response) ==
    LET key == IF kind = "sections" THEN "sections" ELSE "quotes"
        json_str == re_search(response, key)
        data == json_loads(json_str)
    IN json_str # <<>> /\ data.ok /\ HasKey(data.v, key) /\ Get(data.v, key).t = "arr"

\* The decoded list (for a text with HasList).
DecodedEntries(kind, response) ==
    LET key == IF kind = "sections" THEN "sections" ELSE "quotes"
    IN Get(json_loads(re_search(response, key)).v, key).c

RequiredKeys(kind) == IF kind = "sections" THEN SECTION_KEYS ELSE QUOTE_KEYS

\* The JSON branch of parse_section_response / parse_quotes_response.
\* out = "return": the function returned val; out = "fall": control reached
\* the legacy branch; out = "raise": an exception left the function.
Structured(kind, response) ==
    LET key == IF kind = "sections" THEN "sections" ELSE "quotes"
        keys == IF kind = "sections" THEN SECTION_KEYS ELSE QUOTE_KEYS
        json_str == re_search(response, key)
        data == json_loads(json_str)
    IN IF json_str = <<>> THEN [out |-> "fall", val |-> <<>>]
       ELSE IF ~data.ok THEN [out |-> "fall", val |-> <<>>]
       ELSE IF ~(HasKey(data.v, key) /\ Get(data.v, key).t = "arr")
            THEN [out |-> "fall", val |-> <<>>]
       ELSE LET entries == Get(data.v, key).c
                IsValid(e) == AllIn(keys, e)
            IN IF \E n \in 1..Len(entries) : EntryRaises(kind, keys, entries[n])
               THEN Caught(entries)
               ELSE [out |-> "return", val |-> SelectSeq(entries, IsValid)]

\* ----------------------------------------------------------- legacy stage
\* A fold over the lines of one "Section " part: each line is stripped,
\* lowered and tested for a label prefix; the text after the first colon is
\* the value.  A later line with the same label overwrites the earlier one.
RECURSIVE SectionFields(_, _)
SectionFields(lines, d) ==
    IF lines = <<>> THEN d
    ELSE LET line == Strip(lines[1], WS)
             lab == IF Len(line) >= 2 /\ line[2] = ":" THEN Lower(line[1]) ELSE ""
             rest == SubSeq(line, 3, Len(line))
             d2 == CASE lab = "start" ->
                           SetKey(d, "start_phrase", Str(Strip(rest, {" ", "\""})))
                     [] lab = "end" ->
                           SetKey(d, "end_phrase", Str(Strip(rest, {" ", "\""})))
                     [] lab = "category" -> SetKey(d, "category", Str(Strip(rest, WS)))
                     [] lab = "description" ->
                           SetKey(d, "description", Str(Strip(rest, WS)))
                     [] OTHER -> d
         IN SectionFields(Tail1(lines), d2)

BORING1 == <<"BORING", " ", "SECTIONS", ":">>
BORING2 == <<"Boring", " ", "Sections", ":">>

\* The dict built from one part of the response after a "Section " marker.
SectionItem(part) ==
    LET cutp == IF Contains(part, BORING1) \/ Contains(part, BORING2)
                THEN Split(Split(part, BORING1)[1], BORING2)[1]
                ELSE part
    IN SectionFields(Split(Strip(cutp, WS), <<"\n">>), Obj(<<>>))

\* The test that keeps a legacy section item.
SectionItemKept(d) == AllIn(SECTION_KEYS, d)

SectionHeaders ==
    { <<"INTERESTING", " ", "SECTIONS", ":">>, <<"Interesting", " ", "Sections", ":">>,
      <<"interesting", " ", "sections", ":">>, <<"SECTIONS", ":">>, <<"Sections", ":">>,
      <<"sections", ":">> }

\* The legacy branch of parse_section_response.
LegacySections(response) ==
    LET has_section_header == \E h \in SectionHeaders : Contains(response, h)
        upper == Contains(response, <<"Section", " ">>)
        lower == Contains(response, <<"section", " ">>)
        parts == IF upper THEN Tail1(Split(response, <<"Section", " ">>))
                 ELSE IF lower THEN Tail1(Split(response, <<"section", " ">>))
                 ELSE <<>>
        items == [n \in 1..Len(parts) |-> SectionItem(parts[n])]
    IN IF ~has_section_header /\ ~upper /\ ~lower THEN [out |-> "return", val |-> <<>>]
       ELSE IF parts = <<>> THEN [out |-> "return", val |-> <<>>]
       ELSE [out |-> "return", val |-> SelectSeq(items, SectionItemKept)]

DigitAtoms == {"1", "5", "01", "23"}

\* "1. Timestamp:" -> "Timestamp:": a line that starts with a digit loses its
\* leading digits, dots and blanks, unless nothing would be left.
Unnumber(line) ==
    IF line # <<>> /\ line[1] \in DigitAtoms
    THEN LET r == LStrip(line, DigitAtoms \cup {".", " "}) IN
         IF r # <<>> THEN r ELSE line
    ELSE line

\* The text after the first occurrence of pat in line: line.split(pat, 1)[1].
After(line, pat) ==
    LET i == Find(line, pat, 1) IN SubSeq(line, i + Len(pat), Len(line))

\* The test that appends the quote being built to the list.
QuoteItemKept(cur) == cur.c # <<>> /\ HasKey(cur, "timestamp")

\* A fold over the lines of the quote text; st.q is the list so far and
\* st.cur the quote being built.
RECURSIVE QuoteLines(_, _)
QuoteLines(lines, st) ==
    IF lines = <<>> THEN st
    ELSE LET line == Unnumber(Strip(lines[1], WS))
             isT == Contains(line, <<"Timestamp", ":">>) \/ Contains(line, <<"timestamp", ":">>)
             isQ == Contains(line, <<"Quote", ":">>) \/ Contains(line, <<"quote", ":">>)
             isS == Contains(line, <<"Significance", ":">>)
                        \/ Contains(line, <<"significance", ":">>)
             st2 == IF isT THEN
                        [q |-> IF QuoteItemKept(st.cur) THEN Append(st.q, st.cur) ELSE st.q,
                         cur |-> SetKey(Obj(<<>>), "timestamp",
                                   Str(Strip(Strip(After(line, <<":">>), WS),
                                             {"[", "]", "(", ")", " "})))]
                    ELSE IF isQ THEN
                        [q |-> st.q,
                         cur |-> SetKey(st.cur, "text",
                                   Str(Strip(Strip(
                                       IF Contains(line, <<"Quote", ":">>)
                                       THEN After(line, <<"Quote", ":">>)
                                       ELSE After(line, <<"quote", ":">>), WS),
                                       {"\"", "'"})))]
                    ELSE IF isS THEN
                        [q |-> st.q,
                         cur |-> SetKey(st.cur, "significance",
                                   Str(Strip(
                                       IF Contains(line, <<"Significance", ":">>)
                                       THEN After(line, <<"Significance", ":">>)
                                       ELSE After(line, <<"significance", ":">>), WS)))]
                    ELSE st
         IN QuoteLines(Tail1(lines), st2)

QuoteMarkers == << <<"Key", " ", "quotes", ":">>, <<"Key", " ", "Quotes", ":">>,
                   <<"QUOTES", ":">> >>

\* The legacy branch of parse_quotes_response.
LegacyQuotes(response) ==
    LET marked == \E n \in 1..Len(QuoteMarkers) : Contains(response, QuoteMarkers[n])
        first == CHOOSE n \in 1..Len(QuoteMarkers) :
                     /\ Contains(response, QuoteMarkers[n])
                     /\ \A m \in 1..(n-1) : ~Contains(response, QuoteMarkers[m])
        parts == IF marked THEN Strip(Split(response, QuoteMarkers[first])[2], WS)
                 ELSE response
        st == QuoteLines(Split(parts, <<"\n">>), [q |-> <<>>, cur |-> Obj(<<>>)])
    IN IF ~marked /\ ~(Contains(response, <<"Quote", ":">>)
                        \/ Contains(response, <<"Timestamp", ":">>))
       THEN [out |-> "return", val |-> <<>>]
       ELSE [out |-> "return",
             val |-> IF QuoteItemKept(st.cur) THEN Append(st.q, st.cur) ELSE st.q]

Legacy(kind, response) ==
    IF kind = "sections" THEN LegacySections(response) ELSE LegacyQuotes(response)

\* The value a parser returns: that of its JSON branch s, or that of its
\* legacy branch where the JSON branch fell through.
OrLegacy(s, legacy) == IF s.out = "fall" THEN legacy ELSE s.val

\* parse_section_response as a function of the text: the sections returned.
parse_section_response(response) ==
    OrLegacy(Structured("sections", response), LegacySections(response).val)

\* parse_quotes_response as a function of the text: the quotes returned.
parse_quotes_response(response) ==
    OrLegacy(Structured("quotes", response), LegacyQuotes(response).val)

\* ----------------------------------------------------- responses to parse
MaxEntries == 2      \* entries in a generated JSON list
MaxItems == 2        \* items in a generated legacy text

QT == "\""
NL == "\n"

\* json.dumps of a value, as atoms (used to build inputs only).
RECURSIVE Render(_)
RECURSIVE RenderList(_, _)
RenderList(vs, open) ==
    IF vs = <<>> THEN <<>>
    ELSE (IF open THEN <<>> ELSE <<",", " ">>) \o Render(vs[1]) \o RenderList(Tail1(vs), FALSE)
Render(v) ==
    CASE v.t = "str" -> <<QT>> \o v.s \o <<QT>>
      [] v.t = "num" -> <<"5">>
      [] v.t = "null" -> <<"null">>
      [] v.t = "arr" -> <<"[">> \o RenderList(v.c, TRUE) \o <<"]">>
      [] v.t = "pair" -> <<QT>> \o v.s \o <<QT, ":", " ">> \o Render(v.c[1])
      [] v.t = "obj" -> <<"{">> \o RenderList(v.c, TRUE) \o <<"}">>

Field(k, atoms) == Pair(<<k>>, Str(atoms))

\* A complete section entry, and one whose description holds the words that
\* mark an item in the legacy text.
PlainEntry ==
    Obj(<<Field("start_phrase", <<"hello", " ", "world">>), Field("end_phrase", <<"bye">>),
          Field("category", <<"hate">>), Field("description", <<"d1">>)>>)
MarkerEntry ==
    Obj(<<Field("start_phrase", <<"hello", " ", "world">>), Field("end_phrase", <<"bye">>),
          Field("category", <<"hate">>), Field("description", <<"Section", " ", "two">>)>>)

\* Entries a model may put in the "sections" list.
SectionEntries ==
    { PlainEntry,
      MarkerEntry,
      Obj(<<Field("start_phrase", <<"hello">>), Field("end_phrase", <<"bye">>),
            Field("category", <<"routine">>), Field("description", <<"d2">>),
            Field("quote", <<"hello", " ", "world">>)>>),
      Obj(<<Field("start_phrase", <<"hello">>), Field("category", <<"hate">>),
            Field("description", <<"d1">>)>>),
      Obj(<<Field("start_phrase", <<"hello">>), Field("end_phrase", <<"bye">>),
            Field("category", <<"hate">>), Pair(<<"description">>, Num)>>),
      Obj(<<>>),
      Num,
      Null,
      Str(<<"hello">>),
      Str(<<"start_phrase", " ", "end_phrase", " ", "category", " ", "description">>),
      Arr(<<>>) }

\* Entries a model may put in the "quotes" list.
QuoteEntries ==
    { Obj(<<Field("timestamp", <<"01", ":", "23">>), Field("text", <<"hello">>),
            Field("significance", <<"d1">>)>>),
      Obj(<<Field("timestamp", <<"01", ":", "23">>), Field("text", <<"hello">>)>>),
      Obj(<<Field("text", <<"hello">>), Field("significance", <<"d1">>)>>),
      Obj(<<>>),
      Num,
      Null,
      Str(<<"timestamp", " ", "text", " ", "significance">>),
      Arr(<<>>) }

SeqsUpTo(S, n) == UNION { [1..k -> S] : k \in 0..n }

\* The values the top-level key may carry: a list of entries, or no list.
Payloads(kind) ==
    { Arr(es) : es \in SeqsUpTo(IF kind = "sections" THEN SectionEntries ELSE QuoteEntries,
                                MaxEntries) }
    \cup { Num, Null, Str(<<"hello">>),
           Obj(<<Pair(<<IF kind = "sections" THEN "sections" ELSE "quotes">>, Arr(<<>>))>>) }

Doc(kind, payload) ==
    Render(Obj(<<Pair(<<IF kind = "sections" THEN "sections" ELSE "quotes">>, payload)>>))

\* Prose a model may put around the object despite the instructions.
Prefixes == { <<>>, <<"Here", " ", "you", " ", "go", ":", NL>> }
Suffixes == { <<>>, <<NL, "Done", ".">>, <<NL, "{", "5", "}">> }

\* Every proper prefix of a text: a response cut off by the length limit.
Truncations(t) == { SubSeq(t, 1, n) : n \in 0..(Len(t) - 1) }

JsonResponses(kind) ==
    { pre \o Doc(kind, pl) \o suf : pre \in Prefixes, pl \in Payloads(kind), suf \in Suffixes }
    \cup UNION { Truncations(Doc(kind, Arr(<<e>>))) :
                 e \in IF kind = "sections" THEN SectionEntries ELSE QuoteEntries }

\* One legacy item: the labelled lines whose labels are in labs, in order.
LegacyLines(labelled, labs) ==
    IF labelled = <<>> THEN <<>>
    ELSE LET RECURSIVE go(_)
             go(n) == IF n > Len(labelled) THEN <<>>
                      ELSE (IF labelled[n][1] \in labs
                            THEN labelled[n] \o <<NL>> ELSE <<>>) \o go(n + 1)
         IN go(1)

SectionLabelled ==
    << <<"Start", ":", " ", QT, "hello", " ", "world", QT>>,
       <<"END", ":", " ", "bye">>,
       <<"Category", ":", " ", "hate">>,
       <<"description", ":", " ", "d1">> >>
SectionLabels == {"Start", "END", "Category", "description"}

QuoteLabelled ==
    << <<"1", ".", " ", "Timestamp", ":", " ", "[", "01", ":", "23", "]">>,
       <<"Quote", ":", " ", QT, "hello", QT>>,
       <<"Significance", ":", " ", "d1">> >>
QuoteLabels == {"1", "Quote", "Significance"}

RECURSIVE Concat(_)
Concat(ss) == IF ss = <<>> THEN <<>> ELSE ss[1] \o Concat(Tail1(ss))

LegacySectionTexts ==
    { head \o Concat([n \in 1..Len(items) |->
                        <<"Section", " ", "1", ":", NL>> \o LegacyLines(SectionLabelled, items[n])])
      : head \in { <<>>, <<"INTERESTING", " ", "SECTIONS", ":", NL>> },
        items \in SeqsUpTo(SUBSET SectionLabels, MaxItems) }

LegacyQuoteTexts ==
    { head \o Concat([n \in 1..Len(items) |-> LegacyLines(QuoteLabelled, items[n])])
      : head \in { <<>>, <<"Key", " ", "quotes", ":", NL>> },
        items \in SeqsUpTo(SUBSET QuoteLabels, MaxItems) }

Responses(kind) ==
    JsonResponses(kind)
    \cup (IF kind = "sections" THEN LegacySectionTexts ELSE LegacyQuoteTexts)

\* ------------------------------------------------------------ parser runs
\* The variables of an analyze run take no part in a parser run.
AIdle ==
    /\ provider = "" /\ api_key = FALSE /\ categories = <<>> /\ cmd_segments = <<>>
    /\ cmd_text = <<>> /\ output_file = <<>> /\ file_log = <<>> /\ may_fail = 0
    /\ pc = "idle" /\ all_chunks = <<>> /\ chunk_i = 0 /\ attempt = 0 /\ todo = <<>>
    /\ analyzed_sections = <<>> /\ failed_chunks = <<>> /\ completed_chunks = 0
    /\ stdout = <<>> /\ result = <<>> /\ raised = FALSE /\ exit_code = -1
    /\ probes = 0 /\ infer = 0 /\ ident = <<>> /\ cfg = <<>>

\* The variables of an analyze run but for the output file and its log.
nofile == <<provider, api_key, categories, cmd_segments, cmd_text, may_fail,
            pc, all_chunks, chunk_i, attempt, todo, analyzed_sections, failed_chunks,
            completed_chunks, stdout, result, raised, exit_code,
            probes, infer, ident, cfg>>

PInit ==
    /\ p_kind \in {"sections", "quotes"}
    /\ p_resp \in Responses(p_kind)
    /\ p_pc = "structured"
    /\ p_trace = <<>>
    /\ p_ret = <<>>
    /\ p_raised = FALSE
    /\ AIdle
    /\ FIdle

\* The function's exit with outcome r.
PExit(r) ==
    /\ p_pc' = "done"
    /\ p_ret' = r.val
    /\ p_raised' = (r.out = "raise")

\* The JSON branch: it returns, or control goes on to the legacy branch.
StructuredStage ==
    /\ p_pc = "structured"
    /\ p_trace' = Append(p_trace, "structured")
    /\ LET r == Structured(p_kind, p_resp) IN
       IF r.out = "fall"
       THEN p_pc' = "legacy" /\ UNCHANGED <<p_ret, p_raised>>
       ELSE PExit(r)
    /\ UNCHANGED <<p_kind, p_resp>>
    /\ UNCHANGED avars
    /\ UNCHANGED fvars

\* The legacy branch.
LegacyStage ==
    /\ p_pc = "legacy"
    /\ p_trace' = Append(p_trace, "legacy")
    /\ PExit(Legacy(p_kind, p_resp))
    /\ UNCHANGED <<p_kind, p_resp>>
    /\ UNCHANGED avars
    /\ UNCHANGED fvars

PNext == StructuredStage \/ LegacyStage

SpecParse == PInit /\ [][PNext]_vars

\* ======================================================= pipeline: functions
\* Python's truth value of an object.
Truthy(v) ==
    CASE v.t = "str" -> v.s # <<>>
      [] v.t = "num" -> TRUE
      [] v.t = "null" -> FALSE
      [] OTHER -> v.c # <<>>

\* dict.get(k, default)
GetOr(d, k, default) == IF HasKey(d, k) THEN Get(d, k) ELSE default

\* str.lower() of a text, atom by atom.
LowerText(t) == SubSeq([n \in 1..Len(t) |-> Lower(t[n])], 1, Len(t))

\* The atom "#" stands for the three back quotes of a code fence.
Fence == "#"

\* The number of characters of an atom.
AtomLen(a) == IF a = Fence THEN 3 ELSE Len(a)

\* The number of characters of the atoms a..b of a text.
RECURSIVE CharsIn(_, _, _)
CharsIn(t, a, b) ==
    IF a > b THEN 0
    ELSE IF a = b THEN AtomLen(t[a])
    ELSE CharsIn(t, a, (a + b) \div 2) + CharsIn(t, (a + b) \div 2 + 1, b)

CharLen(t) == CharsIn(t, 1, Len(t))

\* The number of leading atoms of a..b that lie wholly within n characters.
RECURSIVE Fit(_, _, _, _)
Fit(t, a, b, n) ==
    IF a > b THEN 0
    ELSE IF a = b THEN (IF AtomLen(t[a]) <= n THEN 1 ELSE 0)
    ELSE LET m == (a + b) \div 2
             left == CharsIn(t, a, m)
         IN IF left <= n THEN (m - a + 1) + Fit(t, m + 1, b, n - left)
            ELSE Fit(t, a, m, n)

\* text[:n]: the atoms that lie wholly within the first n characters.
Prefix(t, n) == SubSeq(t, 1, Fit(t, 1, Len(t), n))

\* str.split(): the words of a text, each word the atoms between white space.
RECURSIVE Words(_)
Words(t) ==
    LET s == LStrip(t, WS) IN
    IF s = <<>> THEN <<>>
    ELSE LET n == Min({j \in 1..Len(s) : s[j] \in WS} \cup {Len(s) + 1})
         IN <<SubSeq(s, 1, n - 1)>> \o Words(SubSeq(s, n, Len(s)))

\* ' '.join(seg['text'].strip() for seg in segments)
RECURSIVE JoinTexts(_)
JoinTexts(segs) ==
    IF segs = <<>> THEN <<>>
    ELSE Strip(segs[1].text, WS)
         \o (IF Len(segs) > 1 THEN <<" ">> \o JoinTexts(Tail1(segs)) ELSE <<>>)

\* A chunker that numbers the chunks by their window, the windows without a
\* segment counted.
RECURSIVE ChunkLoopByWindow(_, _, _, _, _)
ChunkLoopByWindow(segments, chunk_duration, current_start, chunk_num, chunks) ==
    LET total_duration == segments[Len(segments)].end
        chunk_end == current_start + chunk_duration
        InWindow(seg) == seg.start >= current_start /\ seg.start < chunk_end
        chunk_segments == SelectSeq(segments, InWindow)
    IN IF ~(current_start < total_duration) THEN chunks
       ELSE ChunkLoopByWindow(segments, chunk_duration, chunk_end, chunk_num + 1,
                IF chunk_segments # <<>>
                THEN Append(chunks, [number |-> chunk_num,
                                     start_time |-> current_start,
                                     end_time |-> Min({chunk_end, total_duration}),
                                     text |-> JoinTexts(chunk_segments),
                                     segments |-> chunk_segments])
                ELSE chunks)

\* The while loop of chunk_transcript.
RECURSIVE ChunkLoop(_, _, _, _, _)
ChunkLoop(segments, chunk_duration, current_start, chunk_num, chunks) ==
    LET total_duration == segments[Len(segments)].end
        chunk_end == current_start + chunk_duration
        InWindow(seg) == seg.start >= current_start /\ seg.start < chunk_end
        chunk_segments == SelectSeq(segments, InWindow)
    IN IF ~(current_start < total_duration) THEN chunks
       ELSE IF chunk_segments # <<>>
       THEN ChunkLoop(segments, chunk_duration, chunk_end, chunk_num + 1,
                Append(chunks, [number |-> chunk_num,
                                start_time |-> current_start,
                                end_time |-> Min({chunk_end, total_duration}),
                                text |-> JoinTexts(chunk_segments),
                                segments |-> chunk_segments]))
       ELSE ChunkLoop(segments, chunk_duration, chunk_end, chunk_num, chunks)

\* A chunker whose first window starts at the first segment.
ChunkFromFirstSegment(segments, chunk_minutes) ==
    IF segments = <<>> THEN <<>>
    ELSE ChunkLoop(segments, chunk_minutes * 60, segments[1].start, 1, <<>>)

chunk_transcript(segments, chunk_minutes) ==
    IF segments = <<>> THEN <<>> ELSE ChunkLoop(segments, chunk_minutes * 60, 0, 1, <<>>)

\* One phrase word against one segment word: either contains the other.
WordMatch(phrase_word, segment_word) ==
    Contains(segment_word, phrase_word) \/ Contains(phrase_word, segment_word)

\* The matching loop of find_phrase_timestamp for one segment: each phrase
\* word scans the segment words from segment_idx on; the cursor stops after
\* the word it matched, or at the end when nothing matched.
RECURSIVE Matches(_, _, _, _)
Matches(phrase_words, segment_words, pi, segment_idx) ==
    IF pi > Len(phrase_words) THEN 0
    ELSE LET hits == {j \in segment_idx..Len(segment_words) :
                         WordMatch(phrase_words[pi], segment_words[j])}
         IN IF hits = {} THEN Matches(phrase_words, segment_words, pi + 1,
                                      Len(segment_words) + 1)
            ELSE 1 + Matches(phrase_words, segment_words, pi + 1, Min(hits) + 1)

\* The default threshold of find_phrase_timestamp, 0.5, as a fraction.
ThresholdNum == 1
ThresholdDen == 2

\* A loop over the segments that keeps the last segment that reached the
\* best number of matches.
RECURSIVE BestSegmentLatest(_, _, _, _)
BestSegmentLatest(phrase_words, segments, n, best) ==
    IF n > Len(segments) THEN best
    ELSE LET segment_words == Words(LowerText(Strip(LowerText(segments[n].text), WS)))
             m == Matches(phrase_words, segment_words, 1, 1)
         IN IF segment_words # <<>> /\ m >= best.m /\ m > 0
            THEN BestSegmentLatest(phrase_words, segments, n + 1, [m |-> m, n |-> n])
            ELSE BestSegmentLatest(phrase_words, segments, n + 1, best)

\* The loop over the segments: best.m is the best number of matches so far
\* (the score times the number of phrase words) and best.n the index of the
\* segment that reached it (0: none).
RECURSIVE BestSegment(_, _, _, _)
BestSegment(phrase_words, segments, n, best) ==
    IF n > Len(segments) THEN best
    ELSE LET segment_words == Words(LowerText(Strip(LowerText(segments[n].text), WS)))
             m == Matches(phrase_words, segment_words, 1, 1)
         IN IF segment_words # <<>> /\ m > best.m
            THEN BestSegment(phrase_words, segments, n + 1, [m |-> m, n |-> n])
            ELSE BestSegment(phrase_words, segments, n + 1, best)

NoTime == [exc |-> FALSE, none |-> TRUE, t |-> 0]

\* find_phrase_timestamp(phrase, segments): none for None, t the start
\* returned, exc where the call raises (a phrase that is no str).
find_phrase_timestamp(phrase, segments) ==
    IF ~Truthy(phrase) \/ segments = <<>> THEN NoTime
    ELSE IF phrase.t # "str" THEN [exc |-> TRUE, none |-> TRUE, t |-> 0]
    ELSE LET phrase_words == Words(Strip(LowerText(phrase.s), WS))
             best == BestSegment(phrase_words, segments, 1, [m |-> 0, n |-> 0])
         IN IF phrase_words = <<>> THEN NoTime
            ELSE IF best.n # 0 /\ best.m * ThresholdDen >= ThresholdNum * Len(phrase_words)
            THEN [exc |-> FALSE, none |-> FALSE, t |-> segments[best.n].start]
            ELSE NoTime

\* An extraction that takes every segment that overlaps the window.
extract_overlapping(segments, start_time, end_time) ==
    LET Overlaps(seg) == seg.end >= start_time /\ seg.start <= end_time
    IN SelectSeq(segments, Overlaps)

extract_segment_range(segments, start_time, end_time) ==
    LET Inside(seg) == seg.start >= start_time /\ seg.end <= end_time
    IN SelectSeq(segments, Inside)

Pad2(n) == IF n < 10 THEN "0" \o ToString(n) ELSE ToString(n)

\* format_display_time(seconds), as text.
format_display_time(seconds) ==
    LET hours == seconds \div 3600
        minutes == (seconds % 3600) \div 60
        secs == seconds % 60
    IN IF hours > 0 THEN <<ToString(hours), ":", Pad2(minutes), ":", Pad2(secs)>>
       ELSE <<ToString(minutes), ":", Pad2(secs)>>

\* Lines written to standard output.
Progress(n) == [type |-> "progress", n |-> n, msg |-> ""]
Error(msg) == [type |-> "error", n |-> 0, msg |-> msg]
Result == [type |-> "result", n |-> 0, msg |-> ""]

\* A probe whose failure is not reported to its caller.
ProbeNeverFails(step1, step2) ==
    [ok |-> TRUE, requests |-> 2,
     errors |-> IF step1 = "ok" /\ step2 = "ok" THEN <<>> ELSE <<Error("cannot connect")>>]

\* A probe that issues the generation request whatever the first request gave.
ProbeSkipsReachability(step1, step2) ==
    [ok |-> step2 \in {"ok", "garbled"}, requests |-> 2, errors |-> <<>>]

\* Outcomes of the first request with which the probe goes on to the second:
\* status 200 with a body that lists the model, that does not list it, or
\* that is no JSON.
Reachable == {"ok", "unlisted", "garbled"}

\* check_ollama_model with the outcome of its two requests: "ok" (status
\* 200), "status" (another status), "refused" (a connection error that is no
\* timeout), "connect_timeout" (the connection timed out: an exception that
\* is both a connection error and a timeout), "timeout" (any other timeout:
\* no answer in time on a connection that was made);
\* also "unlisted" and "garbled" (status 200, see Reachable), "list" (status
\* 200 with a JSON body that is no object), "status_garbled" (another status
\* with a body that is no JSON), "status_list" (another status with a JSON
\* body that is no object) and "error" (any other exception).
\* The first request has a handler for connection errors; both requests are
\* under the handlers for timeouts and for any other exception.
\* requests is the number of requests it issued.
check_ollama_model(step1, step2) ==
    CASE step1 = "status" ->
           [ok |-> FALSE, requests |-> 1, errors |-> <<Error("server returned HTTP status")>>]
      [] step1 \in {"refused", "connect_timeout"} ->
           [ok |-> FALSE, requests |-> 1, errors |-> <<Error("cannot connect")>>]
      [] step1 = "timeout" ->
           [ok |-> FALSE, requests |-> 1, errors |-> <<Error("model loading timed out")>>]
      [] step1 \notin Reachable \cup {"status", "refused", "connect_timeout", "timeout"} ->
           [ok |-> FALSE, requests |-> 1, errors |-> <<Error("cannot connect or load model")>>]
      [] step1 \in Reachable /\ step2 \in {"ok", "garbled"} ->
           [ok |-> TRUE, requests |-> 2, errors |-> <<>>]
      [] step1 \in Reachable /\ step2 \in {"status", "status_garbled"} ->
           [ok |-> FALSE, requests |-> 2, errors |-> <<Error("model failed")>>]
      [] step1 \in Reachable /\ step2 \in {"timeout", "connect_timeout"} ->
           [ok |-> FALSE, requests |-> 2, errors |-> <<Error("model loading timed out")>>]
      [] OTHER ->
           [ok |-> FALSE, requests |-> 2, errors |-> <<Error("cannot connect or load model")>>]

StepOutcomes == {"ok", "status", "refused", "connect_timeout", "timeout"}

\* build_section_identification_prompt raises for this category list: none
\* supplied, or no enabled entry besides the implicit default.
ConfigError(cats) ==
    \/ ~cats.given
    \/ ~\E n \in 1..Len(cats.list) : cats.list[n].enabled /\ cats.list[n].name # "routine"

MAX_RETRIES == 3

\* The refusal_indicators of identify_interesting_sections, lower-cased.
refusal_indicators ==
    { <<"i", " ", "cannot">>, <<"i", " ", "can't">>,
      <<"i'm", " ", "not", " ", "able", " ", "to">>,
      <<"i", " ", "don't", " ", "feel", " ", "comfortable">>,
      <<"i", " ", "apologize", ",", " ", "but">>,
      <<"against", " ", "my", " ", "guidelines">>, <<"content", " ", "policy">>,
      <<"i'm", " ", "designed", " ", "to">>, <<"i", " ", "shouldn't">> }

RefusalWindow == 200

Refused(response) ==
    LET window == Prefix(LowerText(response), RefusalWindow)
    IN \E indicator \in refusal_indicators : Contains(window, indicator)

\* An answer of call_ai: text, or none.
NoAnswer == [some |-> FALSE, text |-> <<>>]
Answer(t) == [some |-> TRUE, text |-> t]

\* An end of a pass that returns the first section alone.
ReturnsFirstSection(sections) ==
    IF sections # <<>>
    THEN [out |-> "return", val |-> <<sections[1]>>, called |-> 1, config |-> 0]
    ELSE [out |-> "failed", val |-> <<>>, called |-> 1, config |-> 0]

\* The end of a pass whose answer parsed to these sections: the list is
\* returned when it is not empty.
ParsedSections(sections) ==
    IF sections # <<>>
    THEN [out |-> "return", val |-> sections, called |-> 1, config |-> 0]
    ELSE [out |-> "failed", val |-> <<>>, called |-> 1, config |-> 0]

\* One pass of the retry loop of identify_interesting_sections, for the
\* answer call_ai gives if it is called: "return" with the sections, or
\* "failed" (the pass ends in continue or in a raise, by the attempt number).
\* called: call_ai was called; config: prompt construction raised.
IdentifyPass(cats, answer) ==
    IF ConfigError(cats)
    THEN [out |-> "failed", val |-> <<>>, called |-> 0, config |-> 1]
    ELSE IF ~answer.some \/ answer.text = <<>>
    THEN [out |-> "failed", val |-> <<>>, called |-> 1, config |-> 0]
    ELSE IF Refused(answer.text)
    THEN [out |-> "failed", val |-> <<>>, called |-> 1, config |-> 0]
    ELSE ParsedSections(parse_section_response(answer.text))

\* An analyzed section. end_time is a text, or none.
NoEnd == [none |-> TRUE, s |-> <<>>]
EndAt(seconds) == [none |-> FALSE, s |-> format_display_time(seconds)]
AnalyzedSection(category, description, start, end, quotes) ==
    [category |-> category, description |-> description,
     start_time |-> start, end_time |-> end, quotes |-> quotes]

NoSection == AnalyzedSection(Null, Null, <<>>, NoEnd, <<>>)

\* value[:50] is defined.
Sliceable(v) == v.t \in {"str", "arr"}

\* The buffer analyze_section_detail adds to a start time when the end is not
\* after it, and the widening of its second extraction, in seconds.
EndBuffer == 30
Widening == 5

\* analyze_section_detail returns None after this many calls of call_ai.
NoDetail(called) == [some |-> FALSE, val |-> NoSection, called |-> called]

\* A last step that returns the section whatever the answer parsed to.
EmitsWithoutQuotes(section, start_time, end_time, quotes) ==
    [some |-> TRUE, called |-> 1,
     val |-> AnalyzedSection(Get(section, "category"), Get(section, "description"),
                             format_display_time(start_time), EndAt(end_time), quotes)]

\* The last step of analyze_section_detail: the section is returned when
\* the answer parsed to at least one quote.
WithQuotes(section, start_time, end_time, quotes) ==
    IF quotes # <<>>
    THEN [some |-> TRUE, called |-> 1,
          val |-> AnalyzedSection(Get(section, "category"), Get(section, "description"),
                                  format_display_time(start_time), EndAt(end_time), quotes)]
    ELSE NoDetail(1)

\* Phase 2 of analyze_section_detail: section_segments after the first
\* extraction, or after the second one over the widened window when the
\* first one found nothing; extractions counts the calls.
section_segments(all_segments, start_time, end_time) ==
    IF extract_segment_range(all_segments, start_time, end_time) # <<>>
    THEN [segments |-> extract_segment_range(all_segments, start_time, end_time),
          extractions |-> 1]
    ELSE [segments |-> extract_segment_range(all_segments, start_time - Widening,
                                             end_time + Widening),
          extractions |-> 2]

\* Phases 2 to 4 of analyze_section_detail, for a section that spans
\* start_time to end_time: the extraction of the segments, widened once when
\* it finds none, and the call of call_ai.
Extracted(section, all_segments, answer, start_time, end_time) ==
    IF section_segments(all_segments, start_time, end_time).segments = <<>>
    THEN NoDetail(0)
    ELSE IF ~answer.some \/ answer.text = <<>> THEN NoDetail(1)
    ELSE WithQuotes(section, start_time, end_time, parse_quotes_response(answer.text))

\* A phase 1 that makes up for an end phrase that was not found.
CorrelatedEndOptional(section, all_segments, answer, start_time, found_end) ==
    IF start_time.exc \/ start_time.none THEN NoDetail(0)
    ELSE Extracted(section, all_segments, answer, start_time.t,
                   IF found_end.none \/ found_end.t <= start_time.t
                   THEN start_time.t + EndBuffer ELSE found_end.t)

\* A phase 1 that keeps the end as it was found.
CorrelatedAsFound(section, all_segments, answer, start_time, found_end) ==
    IF start_time.exc \/ found_end.exc THEN NoDetail(0)
    ELSE IF start_time.none \/ found_end.none THEN NoDetail(0)
    ELSE Extracted(section, all_segments, answer, start_time.t, found_end.t)

\* Phase 1 of analyze_section_detail after the two searches: a search that
\* raised or found nothing ends the function; an end not after the start is
\* moved to EndBuffer seconds after it.
Correlated(section, all_segments, answer, start_time, found_end) ==
    IF start_time.exc \/ found_end.exc THEN NoDetail(0)
    ELSE IF start_time.none \/ found_end.none THEN NoDetail(0)
    ELSE Extracted(section, all_segments, answer, start_time.t,
                   IF found_end.t <= start_time.t THEN start_time.t + EndBuffer
                   ELSE found_end.t)

\* analyze_section_detail(section, all_segments), for the answer call_ai
\* gives if it is called. some: a section is returned (not None); called:
\* the number of calls of call_ai. Every exception ends in return None.
analyze_section_detail(section, all_segments, answer) ==
    IF section.t # "obj" \/ ~HasKey(section, "category")
       \/ ~HasKey(section, "description") THEN NoDetail(0)
    ELSE IF \/ ~Sliceable(GetOr(section, "start_phrase", Str(<<>>)))
            \/ ~Sliceable(GetOr(section, "end_phrase", Str(<<>>))) THEN NoDetail(0)
    ELSE Correlated(section, all_segments, answer,
             find_phrase_timestamp(GetOr(section, "start_phrase", Str(<<>>)), all_segments),
             find_phrase_timestamp(GetOr(section, "end_phrase", Str(<<>>)), all_segments))

\* The routine section appended when its start phrase was found at start.
RoutineFound(section, start) ==
    IF ~HasKey(section, "description")
    THEN [out |-> "raise", val |-> NoSection, called |-> 0]
    ELSE [out |-> "append", called |-> 0,
          val |-> AnalyzedSection(Str(<<"routine">>), Get(section, "description"),
                      format_display_time(start), NoEnd,
                      IF Truthy(GetOr(section, "quote", Str(<<>>)))
                      THEN << Obj(<<Pair(<<"timestamp">>, Str(format_display_time(start))),
                                    Pair(<<"text">>, GetOr(section, "quote", Str(<<>>))),
                                    Pair(<<"significance">>,
                                         GetOr(section, "description", Str(<<>>)))>>) >>
                      ELSE <<>>)]

\* The routine branch after its search for the start phrase.
RoutineTimed(section, start_time) ==
    IF start_time.exc THEN [out |-> "raise", val |-> NoSection, called |-> 0]
    ELSE IF start_time.none THEN [out |-> "skip", val |-> NoSection, called |-> 0]
    ELSE RoutineFound(section, start_time.t)

\* The branch of analyze_with_ai for a section of the routine category:
\* "append" with the section, "skip" (the start phrase was not found), or
\* "raise" (an exception leaves the loop). It never calls call_ai.
RoutineSection(section, chunk_segments) ==
    RoutineTimed(section,
        find_phrase_timestamp(GetOr(section, "start_phrase", Str(<<>>)), chunk_segments))

\* The branch for any other category: the section analyze_section_detail
\* returned is appended, None is skipped.
DetailedSection(d) ==
    [out |-> IF d.some THEN "append" ELSE "skip", val |-> d.val, called |-> d.called]

\* A loop that sends every section through analyze_section_detail.
AllDetailed(section, chunk_segments, answer) ==
    DetailedSection(analyze_section_detail(section, chunk_segments, answer))

\* One pass of the loop over a chunk's sections, for the answer call_ai
\* gives if it is called.
SectionPass(section, chunk_segments, answer) ==
    IF section.t # "obj" THEN [out |-> "raise", val |-> NoSection, called |-> 0]
    ELSE IF GetOr(section, "category", Null) = Str(<<"routine">>)
    THEN RoutineSection(section, chunk_segments)
    ELSE DetailedSection(analyze_section_detail(section, chunk_segments, answer))

\* The description of the default section, by the transcript text.
ShortTranscript == 50
MusicWords == { <<"music">>, <<"[", "music", "]">>, <<"[", "sound", "]">>, <<"[", "noise", "]">> }
DefaultDescription(transcript_text) ==
    LET stripped == Strip(transcript_text, WS) IN
    IF CharLen(stripped) = 0 THEN <<"No speech or dialogue detected">>
    ELSE IF CharLen(stripped) < ShortTranscript THEN <<"Very brief or minimal audio content">>
    ELSE IF \E word \in MusicWords : Contains(LowerText(transcript_text), word)
    THEN <<"Video primarily contains music or ambient audio">>
    ELSE <<"Analysis could not identify specific notable sections">>

\* A safety check that adds the default section to every list.
AlwaysDefault(sections) == TRUE

\* A safety check that never adds the default section.
NeverDefault(sections) == FALSE

\* The sections after the final safety check.
NeedsDefault(sections) == Len(sections) = 0
WithDefault(sections, segments, transcript_text) ==
    LET video_duration == IF segments # <<>> THEN segments[Len(segments)].end ELSE 0
    IN IF NeedsDefault(sections)
       THEN Append(sections,
                AnalyzedSection(Str(<<"routine">>), Str(DefaultDescription(transcript_text)),
                                <<"0", ":", "00">>,
                                IF video_duration > 0 THEN EndAt(video_duration) ELSE NoEnd,
                                <<>>))
       ELSE sections

\* sep.join(items) raises TypeError: an item is no text.
JoinRaises(items) == \E n \in 1..Len(items) : items[n].t # "str"

\* value[:n] of a list or of a text.
Slice(v, n) ==
    IF v.t = "arr" THEN Arr(SubSeq(v.c, 1, IF Len(v.c) < n THEN Len(v.c) ELSE n))
    ELSE Str(Prefix(v.s, n))

\* The tags of a video, and the tags extract_tags returns when it extracts
\* none.
TagDict(people, topics) == Obj(<<Pair(<<"people">>, people), Pair(<<"topics">>, topics)>>)
NoTags == TagDict(Arr(<<>>), Arr(<<>>))

ContextSections == 10   \* section descriptions in the prompt of extract_tags
PeopleLimit == 20
TopicLimit == 15
TitleTags == 5          \* tags of a kind in the prompt of the title

\* A response without its code fence: when it starts with one, the lines
\* that start with a fence are dropped.
RECURSIVE JoinLines(_)
JoinLines(lines) ==
    IF lines = <<>> THEN <<>>
    ELSE lines[1] \o (IF Len(lines) > 1 THEN <<NL>> \o JoinLines(Tail1(lines)) ELSE <<>>)
Unfenced(t) ==
    IF t # <<>> /\ t[1] = Fence
    THEN JoinLines(SelectSeq(Split(t, <<NL>>), LAMBDA l : l = <<>> \/ l[1] # Fence))
    ELSE t

\* The tags json.loads of the cleaned response yields: both keys must be in
\* the decoded value and their values must have a slice; every exception
\* (a number or None has no "in", a text or a list has no keys, a number,
\* None or a dict has no slice) ends in the empty tags, as does a response
\* that does not decode.
DecodedTags(r) ==
    IF ~r.ok \/ InRaises(r.v) THEN NoTags
    ELSE IF ~(In("people", r.v) /\ In("topics", r.v)) THEN NoTags
    ELSE IF r.v.t # "obj" THEN NoTags
    ELSE IF ~Sliceable(Get(r.v, "people")) \/ ~Sliceable(Get(r.v, "topics")) THEN NoTags
    ELSE TagDict(Slice(Get(r.v, "people"), PeopleLimit),
                 Slice(Get(r.v, "topics"), TopicLimit))

\* extract_tags(transcript_text, analyzed_sections), for the answer call_ai
\* gives if it is called: the tags, and the number of calls of call_ai.  The
\* prompt takes an excerpt of the transcript text, whose length is asked
\* for first (None and a number have none), and joins the first
\* descriptions that are not empty; when one of them is no text the join
\* raises.  An exception ends in the empty tags without a call.
extract_tags(transcript_text, sections, answer) ==
    LET descriptions == SelectSeq([n \in 1..Len(sections) |-> sections[n].description],
                                  Truthy)
    IN IF transcript_text.t \notin {"str", "arr", "obj"}
       THEN [tags |-> NoTags, called |-> 0]
       ELSE IF JoinRaises(SubSeq(descriptions, 1,
                            IF Len(descriptions) < ContextSections
                            THEN Len(descriptions) ELSE ContextSections))
       THEN [tags |-> NoTags, called |-> 0]
       ELSE IF ~answer.some \/ answer.text = <<>>
       THEN [tags |-> NoTags, called |-> 1]
       ELSE [tags |-> DecodedTags(json_loads(Unfenced(Strip(answer.text, WS)))),
             called |-> 1]

\* Building the prompt of the title raises for the tags of this kind: they
\* are there and the join of the first of them finds one that is no text.
TagsRaise(tags, kind) ==
    LET v == GetOr(tags, kind, Arr(<<>>)) IN
    /\ Truthy(v)
    /\ \/ ~Sliceable(v)
       \/ v.t = "arr" /\ JoinRaises(Slice(v, TitleTags).c)

\* generate_suggested_title(tags), for whether call_ai, if it is called,
\* answers with a text that leaves a title: the title or None, and the number
\* of calls of call_ai.  An exception while the prompt is built ends in None
\* before the call.
generate_suggested_title(tags, answered) ==
    IF TagsRaise(tags, "people") \/ TagsRaise(tags, "topics")
    THEN [title |-> "none", called |-> 0]
    ELSE [title |-> IF answered THEN "answer" ELSE "none", called |-> 1]

\* The description of a result: the answer of the model, or a sentence of
\* the service; the sentence about notable sections gives their number and
\* their categories.
Described(kind, text, count, cats) ==
    [kind |-> kind, text |-> text, count |-> count, categories |-> cats]
NoContent == Described("no content", <<>>, 0, {})
SummaryFailed == Described("could not be generated", <<>>, 0, {})

\* generate_video_summary_from_sections(analyzed_sections), for the answer
\* call_ai gives if it is called: the summary, and the number of calls of
\* call_ai.  An answer that is not empty is the summary, stripped.  Without
\* one the summary is a sentence made from the categories of the sections:
\* of routine content when all are routine, or of the notable sections and
\* the set of their categories; a category that cannot be in a set (a list,
\* an object) or in a join (no text) raises, and every exception ends in
\* the sentence that no summary could be generated.
generate_video_summary_from_sections(sections, answer) ==
    LET notable == SelectSeq([n \in 1..Len(sections) |-> sections[n].category],
                             LAMBDA c : c # Str(<<"routine">>))
    IN IF sections = <<>> THEN [summary |-> NoContent, called |-> 0]
       ELSE IF answer.some /\ answer.text # <<>>
       THEN [summary |-> Described("answer", Strip(answer.text, WS), 0, {}), called |-> 1]
       ELSE IF notable = <<>>
       THEN [summary |-> Described("routine content", <<>>, 0, {}), called |-> 1]
       ELSE IF JoinRaises(notable)
       THEN [summary |-> SummaryFailed, called |-> 1]
       ELSE [summary |-> Described("notable sections", <<>>, Len(notable),
                                   {notable[n].s : n \in 1..Len(notable)}),
             called |-> 1]

\* ------------------------------------------------------------ output file
\* The output file is a sequence of parts, each ending in a blank line: the
\* header, the three parts of the overview, and one part per section block.
Part(kind, section) == [kind |-> kind, section |-> section]
FileHeader == Part("header", NoSection)
OverviewTitle == Part("overview", NoSection)
\* The three parts of the overview: its title, the summary, a dashed rule.
Overview(summary) ==
    <<OverviewTitle, [kind |-> "summary", section |-> NoSection, text |-> summary],
      Part("rule", NoSection)>>

\* What a write to the file may do: complete; raise before anything is
\* written (open fails); raise after a first text was written (a later text
\* cannot be encoded or stored).
WriteOutcomes == {"ok", "refused", "cut"}

MaxTexts == 6        \* texts of a section a write may store before it raises

\* Where a section write with the outcome "cut" raises: at the call of
\* f.write that comes after this many calls of it returned.
CutPoints == 0..MaxTexts

\* quote['timestamp'] and quote['text'] are defined.
Writable(quote) == quote.t = "obj" /\ HasKey(quote, "timestamp") /\ HasKey(quote, "text")

\* The texts the loop of write_section_to_file hands to f.write, one per
\* call: for each quote its line, its significance when it has one, and a
\* blank line.  The text of a quote that lacks a key or is no object cannot be
\* built: the loop ends there, in an exception ("raise").
RECURSIVE QuoteTexts(_)
QuoteTexts(quotes) ==
    IF quotes = <<>> THEN <<>>
    ELSE IF ~Writable(Head(quotes)) THEN <<"raise">>
    ELSE <<"quote">>
         \o (IF Truthy(GetOr(Head(quotes), "significance", Null))
             THEN <<"significance">> ELSE <<>>)
         \o <<"blank">> \o QuoteTexts(Tail(quotes))

\* What a block shows of its section: a routine block has neither the end
\* time nor the quotes.
Shown(section) ==
    IF section.category = Str(<<"routine">>)
    THEN [section EXCEPT !.end_time = NoEnd, !.quotes = <<>>]
    ELSE section

\* The texts of a section's block: the heading, the texts of the quotes, and
\* the closing rule.
BlockTexts(section) == <<"heading">> \o QuoteTexts(Shown(section).quotes) \o <<"rule">>

\* The number of texts of the block that f.write stored when
\* write_section_to_file left its with statement: all of them, or those
\* before the first exception (a text that cannot be built, or the write the
\* outcome makes raise).  The file is closed on the way out, so the texts
\* stored before the exception stay in it.
Written(section, outcome, texts) ==
    LET all == BlockTexts(section)
        built == Min({n \in 1..Len(all) : all[n] = "raise"} \cup {Len(all) + 1}) - 1
    IN IF outcome = "cut" /\ texts < built THEN texts ELSE built

\* The part write_section_to_file adds for a section it could open the file
\* for: the whole block, or the block as far as it was written when a write
\* raised: its first texts, of the heading and of the quotes whose line was
\* written.
BlockPart(section, outcome, texts) ==
    LET all == BlockTexts(section)
        n == Written(section, outcome, texts)
        started == Cardinality({k \in 1..n : all[k] = "quote"})
    IN IF n = Len(all) THEN Part("block", Shown(section))
       ELSE [kind |-> "cut", texts |-> n,
             section |-> [Shown(section) EXCEPT !.quotes = SubSeq(@, 1, started)]]

\* The header write of analyze_with_ai hands three texts to f.write: a rule,
\* the title line, and a rule with a blank line.
HeaderTexts == 3

\* What a header write that raised leaves in the file it opened and emptied:
\* the texts stored before the write that raised, short of a header.
CutHeader(texts) ==
    IF texts = 0 THEN <<>>
    ELSE <<[kind |-> "cut header", texts |-> texts, section |-> NoSection]>>

\* The header write of analyze_with_ai (open with mode 'w', three writes, a
\* flush): the file after it, and whether it raised.  Nothing catches its
\* exception.  "refused": the file cannot be opened and stays as it was.
\* "cut": a write raises after so many texts were stored.
write_header(file, outcome, texts) ==
    IF outcome = "refused" THEN [file |-> file, raised |-> TRUE]
    ELSE IF outcome = "cut" /\ texts < HeaderTexts
    THEN [file |-> CutHeader(texts), raised |-> TRUE]
    ELSE [file |-> <<FileHeader>>, raised |-> FALSE]

\* A section write that stores nothing and reports nothing.
SilentWrite(file, section, outcome, texts) == [file |-> file, log |-> <<>>]

\* write_section_to_file(output_file, section, is_first=False): the file
\* after the call and the lines it logs.  Every exception is logged and
\* swallowed; one raised before the first text was stored leaves the file as
\* it was.
write_section_to_file(file, section, outcome, texts) ==
    IF outcome = "refused"
    THEN [file |-> file, log |-> <<"Error writing to file">>]
    ELSE IF BlockPart(section, outcome, texts).kind = "block"
    THEN [file |-> Append(file, BlockPart(section, outcome, texts)), log |-> <<>>]
    ELSE [file |-> IF Written(section, outcome, texts) = 0 THEN file
                   ELSE Append(file, BlockPart(section, outcome, texts)),
          log |-> <<"Error writing to file">>]

\* An overview that is put at the end of the file.
OverviewLast(file, summary, outcome, texts) ==
    [file |-> file \o Overview(summary), log |-> <<>>]

\* prepend_summary_to_file(output_file, summary): the file is read, emptied
\* and written again, in five texts: the header (the file up to its first
\* blank line, its first part), the three parts of the overview, and the
\* rest.  "refused": the file cannot be read or opened and stays as it was.
\* "cut": a write raises after so many texts were stored, and they are all
\* the emptied file holds.  Every exception is logged and swallowed.
PrependTexts == 5
prepend_summary_to_file(file, summary, outcome, texts) ==
    LET all == SubSeq(file, 1, 1) \o Overview(summary) IN
    IF outcome = "refused"
    THEN [file |-> file, log |-> <<"Could not prepend summary to file">>]
    ELSE IF outcome = "cut" /\ texts < PrependTexts
    THEN [file |-> SubSeq(all, 1, IF texts < Len(all) THEN texts ELSE Len(all)),
          log |-> <<"Could not prepend summary to file">>]
    ELSE [file |-> all \o SubSeq(file, 2, Len(file)), log |-> <<>>]

\* ---------------------------------------------------- commands and answers
MaxChunks == 2       \* five-minute windows of speech in a transcript

ChunkMinutes == 5

Providers == {"ollama", "openai", "claude", "gemini"}
CloudProviders == {"openai", "claude"}

Category(name, enabled) == [name |-> name, enabled |-> enabled]
CategoryChoices ==
    { [given |-> FALSE, list |-> <<>>],
      [given |-> TRUE, list |-> <<>>],
      [given |-> TRUE, list |-> <<Category("hate", FALSE)>>],
      [given |-> TRUE, list |-> <<Category("routine", TRUE)>>],
      [given |-> TRUE, list |-> <<Category("hate", TRUE)>>] }

\* A transcript with speech in its first n windows: two segments in each.
Transcript(n) ==
    [j \in 1..(2 * n) |->
        LET base == ((j - 1) \div 2) * (ChunkMinutes * 60) IN
        IF j % 2 = 1
        THEN [start |-> base + 10, end |-> base + 20, text |-> <<"Hello", " ", "world">>]
        ELSE [start |-> base + 40, end |-> base + 50, text |-> <<"bye", " ", "now">>]]

\* What the model may say of a chunk.
Hate == Obj(<<Field("start_phrase", <<"hello", " ", "world">>), Field("end_phrase", <<"bye">>),
              Field("category", <<"hate">>), Field("description", <<"d1">>)>>)
Routine == Obj(<<Field("start_phrase", <<"hello">>), Field("end_phrase", <<"bye">>),
                 Field("category", <<"routine">>), Field("description", <<"d2">>),
                 Field("quote", <<"hello", " ", "world">>)>>)
Unmatched == Obj(<<Field("start_phrase", <<"nope">>), Field("end_phrase", <<"bye">>),
                   Field("category", <<"hate">>), Field("description", <<"d1">>)>>)

IdentAnswers ==
    { NoAnswer,
      Answer(<<>>),
      Answer(<<"I", " ", "cannot", " ", "help", ".">>),
      Answer(<<"Here", " ", "you", " ", "go", ".">>),
      Answer(Doc("sections", Arr(<<Hate, Routine>>))),
      Answer(Doc("sections", Arr(<<Unmatched>>))),
      Answer(Doc("sections", Arr(<<Num>>))) }

QuoteAnswers ==
    { NoAnswer,
      Answer(<<"Here", " ", "you", " ", "go", ".">>),
      Answer(Doc("quotes", Arr(<<Obj(<<Field("timestamp", <<"0", ":", "10">>),
                                      Field("text", <<"hello", " ", "world">>),
                                      Field("significance", <<"d1">>)>>)>>))) }

\* What the model may say when asked for the overview: nothing, or a text.
SummaryAnswers == { NoAnswer, Answer(<<" ", "An", " ", "overview", ".", NL>>) }

\* The transcript text of a command with these segments: their texts
\* joined, as the transcription makes it, or none.
TranscriptTexts(segments) == { Str(JoinTexts(segments)), Null }

MaxFaults == 1       \* writes to the file that fail in one run

\* What the model may say when asked for the tags: nothing, prose, tags that
\* are texts, and tags with an entry that is no text.
TagAnswers ==
    { NoAnswer,
      Answer(<<"Here", " ", "you", " ", "go", ".">>),
      Answer(Render(TagDict(Arr(<<Str(<<"Ann">>)>>), Arr(<<Str(<<"t1">>)>>)))),
      Answer(Render(TagDict(Arr(<<Num>>), Arr(<<Str(<<"t1">>)>>)))) }

\* ------------------------------------------------------------ analyze runs
\* The parser variables take no part in an analyze run.
PIdle ==
    /\ p_kind = "sections"
    /\ p_resp = <<>>
    /\ p_pc = "done"
    /\ p_trace = <<>>
    /\ p_ret = <<>>
    /\ p_raised = FALSE

NoResult == [some |-> FALSE, sections_count |-> 0, sections |-> <<>>,
             tags |-> Null, description |-> Described("", <<>>, 0, {}),
             suggested_title |-> ""]

Init ==
    /\ PIdle
    /\ FIdle
    /\ provider \in Providers
    /\ api_key \in BOOLEAN
    /\ categories \in CategoryChoices
    /\ cmd_segments \in { Transcript(n) : n \in 0..MaxChunks }
    /\ cmd_text \in TranscriptTexts(cmd_segments)
    /\ output_file = <<>>
    /\ file_log = <<>>
    /\ may_fail = 0
    /\ pc = "main"
    /\ all_chunks = <<>>
    /\ chunk_i = 0
    /\ attempt = 0
    /\ todo = <<>>
    /\ analyzed_sections = <<>>
    /\ failed_chunks = <<>>
    /\ completed_chunks = 0
    /\ stdout = <<>>
    /\ result = NoResult
    /\ raised = FALSE
    /\ exit_code = -1
    /\ probes = 0
    /\ infer = 0
    /\ ident = <<>>
    /\ cfg = [raised |-> 0, before |-> -1]

\* A percentage that truncates.
FloorPercent(completed, total) == (100 * completed) \div total

\* round((completed / total) * 100) in double arithmetic, halves to the even
\* neighbour.  The product is the exact percentage or so near to it that the
\* rounding is that of the exact value, but for two ratios whose exact
\* percentage ends in a half: 23/40 (the product is 57.49999999999999) and
\* 109/200 (the product is 54.50000000000001).
RoundPercent(completed, total) ==
    LET q == (100 * completed) \div total
        r == (100 * completed) % total
    IN IF 40 * completed = 23 * total THEN 57
       ELSE IF 200 * completed = 109 * total THEN 55
       ELSE IF 2 * r > total \/ (2 * r = total /\ q % 2 = 1) THEN q + 1 ELSE q

\* The process ends with an error line of main.
ServiceError(lines) ==
    /\ stdout' = stdout \o lines \o <<Error("Service error")>>
    /\ exit_code' = 1
    /\ pc' = "exit"

\* An exception leaves analyze_with_ai through its handler, then main's.
AnalysisFails(lines) ==
    /\ raised' = TRUE
    /\ ServiceError(lines \o <<Error("AI analysis failed")>>)

\* main up to the first request of analyze_with_ai.
Main ==
    /\ pc = "main"
    /\ IF provider \in CloudProviders /\ ~api_key
       THEN ServiceError(<<>>)
       ELSE /\ stdout' = Append(stdout, Progress(0))
            /\ pc' = IF provider = "ollama" THEN "probe" ELSE "header"
            /\ UNCHANGED exit_code
    /\ UNCHANGED <<provider, api_key, categories, cmd_segments, cmd_text, may_fail, all_chunks, chunk_i,
                   attempt, todo, analyzed_sections, failed_chunks, completed_chunks,
                   result, raised, probes, infer, ident, cfg>>
    /\ UNCHANGED <<output_file, file_log>>
    /\ UNCHANGED pvars
    /\ UNCHANGED fvars

\* The availability probe, and the raise on its failure.
Probe(step1, step2) ==
    /\ pc = "probe"
    /\ LET r == check_ollama_model(step1, step2) IN
       /\ probes' = probes + r.requests
       /\ IF r.ok
          THEN /\ stdout' = stdout \o r.errors
               /\ pc' = "header"
               /\ UNCHANGED <<raised, exit_code>>
          ELSE AnalysisFails(r.errors)
    /\ UNCHANGED <<provider, api_key, categories, cmd_segments, cmd_text, may_fail, all_chunks, chunk_i,
                   attempt, todo, analyzed_sections, failed_chunks, completed_chunks,
                   result, infer, ident, cfg>>
    /\ UNCHANGED <<output_file, file_log>>
    /\ UNCHANGED pvars
    /\ UNCHANGED fvars

\* The header write (it succeeds, or raises with the file as far as it was
\* written), the chunking and the first progress report.
Header(outcome, texts) ==
    /\ pc = "header"
    /\ texts \in (IF outcome = "cut" THEN 1..(HeaderTexts - 1) ELSE {0})
    /\ output_file' = write_header(output_file, outcome, texts).file
    /\ IF write_header(output_file, outcome, texts).raised
       THEN /\ AnalysisFails(<<>>)
            /\ UNCHANGED <<all_chunks, chunk_i, attempt, ident>>
       ELSE LET cs == chunk_transcript(cmd_segments, ChunkMinutes) IN
            /\ all_chunks' = cs
            /\ stdout' = Append(stdout, Progress(IF Len(cs) = 1 THEN -1 ELSE 0))
            /\ chunk_i' = 1
            /\ attempt' = 1
            /\ ident' = [c \in 1..Len(cs) |-> [attempts |-> 0, calls |-> 0, found |-> 0]]
            /\ pc' = IF cs = <<>> THEN "complete" ELSE "identify"
            /\ UNCHANGED <<raised, exit_code>>
    /\ UNCHANGED <<provider, api_key, categories, cmd_segments, cmd_text, may_fail, todo, analyzed_sections,
                   failed_chunks, completed_chunks, result, probes, infer, cfg, file_log>>
    /\ UNCHANGED pvars
    /\ UNCHANGED fvars

\* A retry loop that goes on after the third failed pass.
RetriesOnceMore(n) == n < MAX_RETRIES + 1

\* The retry loop goes on after a failed pass numbered n.
Retries(n) == n < MAX_RETRIES

\* A handler that lets the exception of a chunk's identification go up.
ChunkFailureRaises(number) == [out |-> "raise", failed |-> <<>>]

\* What analyze_with_ai does with the exception of a chunk's identification:
\* it records the chunk and goes on.
ChunkFailure(number) == [out |-> "continue", failed |-> <<number>>]

\* The end of a chunk's pass through the loop of analyze_with_ai: the count,
\* the progress report, and the move to the next chunk.
ChunkDone(lines, msg) ==
    LET total_chunks == Len(all_chunks) IN
    /\ completed_chunks' = completed_chunks + 1
    /\ stdout' = stdout \o lines \o
                 (IF total_chunks > 1
                  THEN <<[type |-> "progress", msg |-> msg,
                          n |-> RoundPercent(completed_chunks + 1, total_chunks)]>>
                  ELSE <<>>)
    /\ chunk_i' = chunk_i + 1
    /\ attempt' = 1
    /\ pc' = IF chunk_i = total_chunks THEN "complete" ELSE "identify"

\* The number of entries of an identified list the loop over the sections
\* hands to analyze_section_detail: those not of the routine category, as far
\* as the loop gets.  It ends at an entry that is no object (section.get
\* raises) and at a routine entry whose branch raises.
RECURSIVE NonRoutine(_, _)
NonRoutine(sections, chunk_segments) ==
    IF sections = <<>> THEN 0
    ELSE IF Head(sections).t # "obj" THEN 0
    ELSE IF GetOr(Head(sections), "category", Null) = Str(<<"routine">>)
    THEN IF RoutineSection(Head(sections), chunk_segments).out = "raise" THEN 0
         ELSE NonRoutine(Tail(sections), chunk_segments)
    ELSE 1 + NonRoutine(Tail(sections), chunk_segments)

\* One pass of the retry loop for the chunk in hand; on the last failed pass,
\* the raise and its handling in analyze_with_ai.
Identify(answer) ==
    /\ pc = "identify"
    /\ \E r \in {IdentifyPass(categories, answer)}, h \in {ChunkFailure(chunk_i)} :
       /\ ident' = [ident EXCEPT ![chunk_i] = [attempts |-> @.attempts + 1,
                                               calls |-> @.calls + r.called,
                                               found |-> IF r.out = "return"
                                                         THEN NonRoutine(r.val, all_chunks[chunk_i].segments)
                                                         ELSE 0]]
       /\ infer' = infer + r.called
       /\ cfg' = IF r.config = 0 THEN cfg
                 ELSE [raised |-> cfg.raised + 1,
                       before |-> IF cfg.raised = 0 THEN probes + infer ELSE cfg.before]
       /\ IF r.out = "return"
          THEN /\ todo' = r.val
               /\ pc' = "sections"
               /\ UNCHANGED <<chunk_i, attempt, failed_chunks, completed_chunks, stdout,
                              raised, exit_code>>
          ELSE IF Retries(attempt)
          THEN /\ attempt' = attempt + 1
               /\ UNCHANGED <<pc, todo, chunk_i, failed_chunks, completed_chunks, stdout,
                              raised, exit_code>>
          ELSE IF h.out = "continue"
          THEN /\ failed_chunks' = failed_chunks \o h.failed
               /\ ChunkDone(<<>>, "failed, continuing")
               /\ UNCHANGED <<todo, raised, exit_code>>
          ELSE /\ AnalysisFails(<<>>)
               /\ UNCHANGED <<todo, chunk_i, attempt, failed_chunks, completed_chunks>>
    /\ UNCHANGED <<provider, api_key, categories, cmd_segments, cmd_text, may_fail, all_chunks,
                   analyzed_sections, result, probes>>
    /\ UNCHANGED <<output_file, file_log>>
    /\ UNCHANGED pvars
    /\ UNCHANGED fvars

\* A loop that puts each new section in front of the list.
Prepended(sections, section) == <<section>> \o sections

\* analyzed_sections.append(section): the new section goes to the end.
Appended(sections, section) == Append(sections, section)

\* What the environment does to a write of a run to the file after the
\* header: it makes it fail only while fewer writes of the run than may_fail
\* failed before it, and a write it cuts, it cuts after the first text (the
\* heading of a block, the header before an overview).
RunCut == 1
Tried(outcome, texts) ==
    /\ outcome # "ok" => Len(file_log) < may_fail
    /\ texts = (IF outcome = "cut" THEN RunCut ELSE 0)

\* One pass of the loop over the sections of the chunk in hand: a section it
\* appends is written to the file at once; after the last section, the end
\* of the chunk.
Sections(answer) ==
    /\ pc = "sections"
    /\ todo # <<>>
    /\ \E r \in {SectionPass(Head(todo), all_chunks[chunk_i].segments, answer)} :
       /\ infer' = infer + r.called
       /\ IF r.out = "raise"
          THEN /\ AnalysisFails(<<>>)
               /\ UNCHANGED <<todo, analyzed_sections, chunk_i, attempt, completed_chunks,
                              output_file, file_log>>
          ELSE /\ IF r.out = "append"
                  THEN /\ analyzed_sections' = Appended(analyzed_sections, r.val)
                       /\ \E outcome \in WriteOutcomes, texts \in CutPoints :
                          /\ Tried(outcome, texts)
                          /\ \E w \in {write_section_to_file(output_file, r.val,
                                                            outcome, texts)} :
                             /\ output_file' = w.file
                             /\ file_log' = file_log \o w.log
                  ELSE UNCHANGED <<analyzed_sections, output_file, file_log>>
               /\ todo' = Tail(todo)
               /\ IF Tail(todo) = <<>>
                  THEN ChunkDone(<<>>, "completed")
                  ELSE UNCHANGED <<pc, chunk_i, attempt, completed_chunks, stdout>>
               /\ UNCHANGED <<raised, exit_code>>
    /\ UNCHANGED <<provider, api_key, categories, cmd_segments, cmd_text, may_fail, all_chunks, failed_chunks,
                   result, probes, ident, cfg>>
    /\ UNCHANGED pvars
    /\ UNCHANGED fvars

\* transcript_text.strip() of the safety check raises: the check has a
\* default section to describe and the transcript text is no text.
DefaultRaises(sections, transcript_text) ==
    NeedsDefault(sections) /\ transcript_text.t # "str"

\* After the loop: the completion report, the safety check, which appends
\* its default section and writes it to the file, and the progress report
\* that precedes tag extraction.
Complete ==
    /\ pc = "complete"
    /\ \E report \in {[type |-> "progress", n |-> 100,
                        msg |-> IF failed_chunks # <<>> THEN "complete with failed chunks"
                                ELSE "complete"]} :
       IF DefaultRaises(analyzed_sections, cmd_text)
       THEN /\ AnalysisFails(<<report>>)
            /\ UNCHANGED <<analyzed_sections, output_file, file_log>>
       ELSE /\ stdout' = stdout \o <<report, Progress(92)>>
            /\ \E all \in {WithDefault(analyzed_sections, cmd_segments, cmd_text.s)} :
               /\ analyzed_sections' = all
               /\ IF all = analyzed_sections
                  THEN UNCHANGED <<output_file, file_log>>
                  ELSE \E outcome \in WriteOutcomes, texts \in CutPoints :
                       /\ Tried(outcome, texts)
                       /\ \E w \in {write_section_to_file(output_file, all[Len(all)],
                                                         outcome, texts)} :
                          /\ output_file' = w.file
                          /\ file_log' = file_log \o w.log
            /\ pc' = "tags"
            /\ UNCHANGED <<raised, exit_code>>
    /\ UNCHANGED <<provider, api_key, categories, cmd_segments, cmd_text, may_fail, all_chunks, chunk_i,
                   attempt, todo, failed_chunks, completed_chunks, result,
                   probes, infer, ident, cfg>>
    /\ UNCHANGED pvars
    /\ UNCHANGED fvars

\* extract_tags, for the answer of its call if it makes one: tags extracted
\* from the answer, or the empty tags.
Tags(answer) ==
    /\ pc = "tags"
    /\ \E r \in {extract_tags(cmd_text, analyzed_sections, answer)} :
          /\ infer' = infer + r.called
          /\ result' = [result EXCEPT !.tags = r.tags]
    /\ stdout' = Append(stdout, Progress(95))
    /\ pc' = "summary"
    /\ UNCHANGED <<provider, api_key, categories, cmd_segments, cmd_text, may_fail, all_chunks, chunk_i,
                   attempt, todo, analyzed_sections, failed_chunks, completed_chunks,
                   raised, exit_code, probes, ident, cfg>>
    /\ UNCHANGED <<output_file, file_log>>
    /\ UNCHANGED pvars
    /\ UNCHANGED fvars

\* generate_video_summary_from_sections, for the answer of its call (it makes
\* none when there is no section), then prepend_summary_to_file with the
\* summary, and the progress report that precedes the title.
Summary(answer) ==
    /\ pc = "summary"
    /\ \E r \in {generate_video_summary_from_sections(analyzed_sections, answer)} :
       /\ infer' = infer + r.called
       /\ result' = [result EXCEPT !.description = r.summary]
       /\ \E outcome \in WriteOutcomes, texts \in CutPoints :
          /\ Tried(outcome, texts)
          /\ \E w \in {prepend_summary_to_file(output_file, r.summary, outcome, texts)} :
             /\ output_file' = w.file
             /\ file_log' = file_log \o w.log
    /\ stdout' = Append(stdout, Progress(98))
    /\ pc' = "title"
    /\ UNCHANGED <<provider, api_key, categories, cmd_segments, cmd_text, may_fail, all_chunks, chunk_i,
                   attempt, todo, analyzed_sections, failed_chunks, completed_chunks,
                   raised, exit_code, probes, ident, cfg>>
    /\ UNCHANGED pvars
    /\ UNCHANGED fvars

\* generate_suggested_title, for the answer of its call if it makes one;
\* then the return of analyze_with_ai and the result line of main.
Title(answered) ==
    /\ pc = "title"
    /\ \E r \in {generate_suggested_title(result.tags, answered)} :
          /\ infer' = infer + r.called
          /\ result' = [result EXCEPT !.some = TRUE,
                                      !.sections_count = Len(analyzed_sections),
                                      !.sections = analyzed_sections,
                                      !.suggested_title = r.title]
    /\ stdout' = stdout \o <<Progress(100), Result>>
    /\ exit_code' = 0
    /\ pc' = "exit"
    /\ UNCHANGED <<provider, api_key, categories, cmd_segments, cmd_text, may_fail, all_chunks, chunk_i,
                   attempt, todo, analyzed_sections, failed_chunks, completed_chunks,
                   raised, probes, ident, cfg>>
    /\ UNCHANGED <<output_file, file_log>>
    /\ UNCHANGED pvars
    /\ UNCHANGED fvars

Next ==
    \/ Main
    \/ \E step1, step2 \in StepOutcomes : Probe(step1, step2)
    \/ \E outcome \in WriteOutcomes, texts \in CutPoints : Header(outcome, texts)
    \/ \E answer \in IdentAnswers : Identify(answer)
    \/ \E answer \in QuoteAnswers : Sections(answer)
    \/ Complete
    \/ \E answer \in TagAnswers : Tags(answer)
    \/ \E answer \in SummaryAnswers : Summary(answer)
    \/ \E answered \in BOOLEAN : Title(answered)

Spec == Init /\ [][Next]_vars

\* The runs of the local provider with a category to look for, whose writes
\* to the output file may fail: as many as MaxFaults of them after the
\* header.  A command without segments may come without a transcript text.
FileInit ==
    /\ PIdle
    /\ FIdle
    /\ provider = "ollama"
    /\ api_key = FALSE
    /\ categories = [given |-> TRUE, list |-> <<Category("hate", TRUE)>>]
    /\ cmd_segments \in { Transcript(n) : n \in 0..MaxChunks }
    /\ cmd_text \in IF cmd_segments = <<>> THEN TranscriptTexts(cmd_segments)
                    ELSE {Str(JoinTexts(cmd_segments))}
    /\ output_file = <<>>
    /\ file_log = <<>>
    /\ may_fail = MaxFaults
    /\ pc = "main"
    /\ all_chunks = <<>>
    /\ chunk_i = 0
    /\ attempt = 0
    /\ todo = <<>>
    /\ analyzed_sections = <<>>
    /\ failed_chunks = <<>>
    /\ completed_chunks = 0
    /\ stdout = <<>>
    /\ result = NoResult
    /\ raised = FALSE
    /\ exit_code = -1
    /\ probes = 0
    /\ infer = 0
    /\ ident = <<>>
    /\ cfg = [raised |-> 0, before |-> -1]

SpecRun == FileInit /\ [][Next]_vars

\* The process takes its next step as long as it has one: every request it
\* makes returns.  This is weak fairness of Next, with the enabledness of
\* Next written as the state predicate it equals in every reachable state:
\* the process has a next step exactly when it has not exited.
FairSpec == Spec /\ ([]<>(pc = "exit") \/ []<><<Next>>_vars)

\* ========================================================== chunking runs
\* chunk_transcript applied to the segment list of a command.
MaxSegments == 3     \* segments in a generated list

\* Where a segment may start and how long it may last, in seconds: within
\* the first window, at its end, in the second window, in the fourth; a
\* segment may have no length.
SegmentStarts == {0, 10, 290, 300, 310, 900}
SegmentLengths == {0, 10, 20}
SegmentTexts == << <<"Hello", " ", "world">>, <<" ", "bye", " ", "now">>, <<"d1">>, <<"d2">> >>

\* The segment lists of a transcription: start times do not decrease, and
\* the n-th segment carries the n-th text.
SegmentLists ==
    LET Spans == SegmentStarts \X SegmentLengths
        Ordered(f) == \A n \in 1..(Len(f) - 1) : f[n][1] <= f[n + 1][1]
    IN { [n \in 1..Len(f) |-> [start |-> f[n][1], end |-> f[n][1] + f[n][2],
                               text |-> SegmentTexts[n]]]
         : f \in { g \in SeqsUpTo(Spans, MaxSegments) : Ordered(g) } }

ChunkInit ==
    /\ PIdle
    /\ FIdle
    /\ cmd_segments \in SegmentLists
    /\ pc = "chunk"
    /\ all_chunks = <<>>
    /\ provider = "" /\ api_key = FALSE /\ categories = <<>>
    /\ cmd_text = <<>> /\ output_file = <<>> /\ file_log = <<>> /\ may_fail = 0
    /\ chunk_i = 0 /\ attempt = 0 /\ todo = <<>>
    /\ analyzed_sections = <<>> /\ failed_chunks = <<>> /\ completed_chunks = 0
    /\ stdout = <<>> /\ result = <<>> /\ raised = FALSE /\ exit_code = -1
    /\ probes = 0 /\ infer = 0 /\ ident = <<>> /\ cfg = <<>>

\* The call chunk_transcript(segments, chunk_minutes=5) of analyze_with_ai.
Chunk ==
    /\ pc = "chunk"
    /\ all_chunks' = chunk_transcript(cmd_segments, ChunkMinutes)
    /\ pc' = "chunked"
    /\ UNCHANGED <<provider, api_key, categories, cmd_segments, cmd_text, may_fail, chunk_i, attempt, todo,
                   analyzed_sections, failed_chunks, completed_chunks, stdout, result,
                   raised, exit_code, probes, infer, ident, cfg>>
    /\ UNCHANGED <<output_file, file_log>>
    /\ UNCHANGED pvars
    /\ UNCHANGED fvars

SpecChunk == ChunkInit /\ [][Chunk]_vars

\* ===================================================== phrase search runs
\* find_phrase_timestamp applied to a phrase and a segment list.
SpokenTexts ==
    { <<"hello", " ", "big", " ", "world">>, <<"Hello", " ", "world">>,
      <<"bye", " ", "now">>, <<>> }

\* Segment lists: the n-th segment starts at second 10 * n and lasts 5.
SpokenLists ==
    { [n \in 1..Len(f) |-> [start |-> 10 * n, end |-> 10 * n + 5, text |-> f[n]]]
      : f \in SeqsUpTo(SpokenTexts, MaxSegments) }

\* Phrases a model may give: taken from the speech, altered, blank, not a text.
Phrases ==
    { Str(<<"Hello", " ", "world">>), Str(<<"hello", " ", "world">>), Str(<<"world">>),
      Str(<<"bye", " ", "now">>), Str(<<"now", " ", "bye">>),
      Str(<<"hello", " ", "nope", " ", "d1">>), Str(<<"nope">>), Str(<<" ">>), Str(<<>>),
      Num }

PhraseInit ==
    /\ PIdle
    /\ AIdle
    /\ f_pc = "call"
    /\ f_args \in { [phrase |-> p, segments |-> l] : p \in Phrases, l \in SpokenLists }
    /\ f_ret = <<>>

\* The call find_phrase_timestamp(phrase, segments).
FindPhrase ==
    /\ f_pc = "call"
    /\ f_ret' = find_phrase_timestamp(f_args.phrase, f_args.segments)
    /\ f_pc' = "done"
    /\ UNCHANGED f_args
    /\ UNCHANGED pvars
    /\ UNCHANGED avars

SpecPhrase == PhraseInit /\ [][FindPhrase]_vars

\* =================================================== section detail runs
\* analyze_section_detail applied to a section of a chunk.
DetailPhrases == { <<"hello", " ", "world">>, <<"bye", " ", "now">>, <<"nope">> }

\* Sections a model may name: complete ones whose phrases are or are not
\* in the speech, one without a description, one that is no object.
DetailSections ==
    { Obj(<<Field("start_phrase", a), Field("end_phrase", b),
            Field("category", <<"hate">>), Field("description", <<"d1">>)>>)
      : a \in DetailPhrases, b \in DetailPhrases }
    \cup { Obj(<<Field("start_phrase", <<"hello", " ", "world">>),
                 Field("end_phrase", <<"bye", " ", "now">>),
                 Field("category", <<"hate">>)>>),
           Num }

DetailInit ==
    /\ PIdle
    /\ AIdle
    /\ f_pc = "call"
    /\ f_args \in { [section |-> x, segments |-> l, answer |-> a]
                    : x \in DetailSections, l \in SpokenLists, a \in QuoteAnswers }
    /\ f_ret = <<>>

\* The call analyze_section_detail(..., section, chunk['segments']), for the
\* answer call_ai gives if it is called.
AnalyzeDetail ==
    /\ f_pc = "call"
    /\ f_ret' = analyze_section_detail(f_args.section, f_args.segments, f_args.answer)
    /\ f_pc' = "done"
    /\ UNCHANGED f_args
    /\ UNCHANGED pvars
    /\ UNCHANGED avars

SpecDetail == DetailInit /\ [][AnalyzeDetail]_vars

\* ============================================================ call_ai runs
\* What the transport gives one request: a reply that carries text, a reply
\* that carries the empty text, a reply whose body cannot be read ("garbled"),
\* a status that is no success, a timeout, a refused connection.
TransportOutcomes ==
    { [kind |-> "reply", text |-> <<"Here", " ", "you", " ", "go", ".">>],
      [kind |-> "reply", text |-> <<>>],
      [kind |-> "garbled", text |-> <<>>],
      [kind |-> "status", text |-> <<>>],
      [kind |-> "timeout", text |-> <<>>],
      [kind |-> "refused", text |-> <<>>] }

\* What a call returned: an answer (text or none), the requests it issued,
\* and raised where an exception left it.
Returned(answer, requests) == [answer |-> answer, requests |-> requests, raised |-> FALSE]
Raising(requests) == [answer |-> NoAnswer, requests |-> requests, raised |-> TRUE]

\* A call_ollama that lets a failed request raise.
CallOllamaRaising(outcome) ==
    IF outcome.kind = "reply" THEN Returned(Answer(outcome.text), 1) ELSE Raising(1)

\* call_ollama: one requests.post; status 200 returns the 'response' of the
\* body; any other status, a timeout and every other exception return None.
call_ollama(outcome) ==
    CASE outcome.kind = "reply" -> Returned(Answer(outcome.text), 1)
      [] outcome.kind = "status" -> Returned(NoAnswer, 1)
      [] outcome.kind = "timeout" -> Returned(NoAnswer, 1)
      [] OTHER -> Returned(NoAnswer, 1)

\* call_openai / call_claude: None without a request when the client
\* library is missing; else one request, whose text is returned, and None
\* for every exception of the client.
call_client(available, outcome) ==
    IF ~available THEN Returned(NoAnswer, 0)
    ELSE IF outcome.kind = "reply" THEN Returned(Answer(outcome.text), 1)
    ELSE Returned(NoAnswer, 1)

\* call_ai: the dispatch on the provider; every provider that is neither
\* 'openai' nor 'claude' goes to call_ollama.
call_ai(ai_provider, available, outcome) ==
    IF ai_provider = "openai" THEN call_client(available, outcome)
    ELSE IF ai_provider = "claude" THEN call_client(available, outcome)
    ELSE call_ollama(outcome)

CallInit ==
    /\ PIdle
    /\ AIdle
    /\ f_pc = "call"
    /\ f_args \in { [provider |-> p, available |-> a, outcome |-> o]
                    : p \in Providers \cup {"other"}, a \in BOOLEAN, o \in TransportOutcomes }
    /\ f_ret = <<>>

\* One call of call_ai.
CallAi ==
    /\ f_pc = "call"
    /\ f_ret' = call_ai(f_args.provider, f_args.available, f_args.outcome)
    /\ f_pc' = "done"
    /\ UNCHANGED f_args
    /\ UNCHANGED pvars
    /\ UNCHANGED avars

SpecCall == CallInit /\ [][CallAi]_vars

\* ============================================================== probe runs
\* check_ollama_model called on its own, for every outcome of its requests.
FirstOutcomes ==
    {"ok", "unlisted", "garbled", "list", "status", "refused", "connect_timeout",
     "timeout", "error"}
SecondOutcomes ==
    {"ok", "garbled", "status", "status_garbled", "status_list", "refused",
     "connect_timeout", "timeout", "error"}

ProbeInit ==
    /\ PIdle
    /\ AIdle
    /\ f_pc = "call"
    /\ f_args \in { [step1 |-> a, step2 |-> b] : a \in FirstOutcomes, b \in SecondOutcomes }
    /\ f_ret = <<>>

\* One call of check_ollama_model.
CheckModel ==
    /\ f_pc = "call"
    /\ f_ret' = check_ollama_model(f_args.step1, f_args.step2)
    /\ f_pc' = "done"
    /\ UNCHANGED f_args
    /\ UNCHANGED pvars
    /\ UNCHANGED avars

SpecProbe == ProbeInit /\ [][CheckModel]_vars

\* ======================================================= section pass runs
\* One pass of the loop of analyze_with_ai over the sections of a chunk.
\* Routine sections a model may name: their start phrase is or is not in
\* the speech, and they come with or without a representative quote.
RoutineSections ==
    { Obj(<<Field("start_phrase", a), Field("end_phrase", <<"bye", " ", "now">>),
            Field("category", <<"routine">>), Field("description", <<"d2">>)>> \o q)
      : a \in DetailPhrases, q \in {<<>>, <<Field("quote", <<"hello", " ", "world">>)>>} }

\* The loop of an analyze run is looked at on its own: the output file holds
\* the header the run wrote before the loop.
AfterHeader ==
    /\ provider = "" /\ api_key = FALSE /\ categories = <<>> /\ cmd_segments = <<>>
    /\ cmd_text = <<>> /\ output_file = <<FileHeader>> /\ file_log = <<>> /\ may_fail = 0
    /\ pc = "idle" /\ all_chunks = <<>> /\ chunk_i = 0 /\ attempt = 0 /\ todo = <<>>
    /\ analyzed_sections = <<>> /\ failed_chunks = <<>> /\ completed_chunks = 0
    /\ stdout = <<>> /\ result = <<>> /\ raised = FALSE /\ exit_code = -1
    /\ probes = 0 /\ infer = 0 /\ ident = <<>> /\ cfg = <<>>

\* What a pass of the loop does to the file: the section it appended is
\* written at once, with any outcome of the write; a pass that skips its
\* section or raises leaves the file alone.
PassWrites(pass) ==
    IF pass.out = "append"
    THEN \E outcome \in WriteOutcomes, texts \in CutPoints :
            /\ outcome = "cut" \/ texts = 0
            /\ \E w \in {write_section_to_file(output_file, pass.val, outcome, texts)} :
                  /\ output_file' = w.file
                  /\ file_log' = file_log \o w.log
    ELSE UNCHANGED <<output_file, file_log>>

\* A chunk has at least one segment.
SectionInit ==
    /\ PIdle
    /\ AfterHeader
    /\ f_pc = "call"
    /\ f_args \in { [section |-> x, segments |-> l, answer |-> a]
                    : x \in RoutineSections \cup DetailSections,
                      l \in SpokenLists \ {<<>>}, a \in QuoteAnswers }
    /\ f_ret = <<>>

\* The body of the loop for one section, for the answer call_ai gives if it
\* is called.
SectionStep ==
    /\ f_pc = "call"
    /\ f_ret' = SectionPass(f_args.section, f_args.segments, f_args.answer)
    /\ PassWrites(f_ret')
    /\ f_pc' = "done"
    /\ UNCHANGED f_args
    /\ UNCHANGED pvars
    /\ UNCHANGED nofile

SpecSection == SectionInit /\ [][SectionStep]_vars

\* ====================================================== identification runs
\* identify_interesting_sections called on its own: the answers call_ai
\* gives to its passes, and the pass it ends with.
LongWord == "xxxxxxxxxxxxxxxxxxxxxxxxxxxxxxxxxxxxxxxxxxxxxxxxxxxxxxxxxxxxxxxxxxxxxxxxxxxxxxxxxxxxxxxxxxxxxxxxxxxxxxxxxxxxxxxxxxxxxxxxxxxxxxxxxxxxxxxxxxxxxxxxxxxxxxxxxxxxxxxxxxxxxxxxxxxxxxxxxxxxxxx"

\* Answers with a sections object: plain, of two sections or of one; after a
\* refusal; after a refusal that ends at the 200th character of a text with
\* three dotted capitals.
Found == Doc("sections", Arr(<<Hate, Routine>>))
PassAnswers ==
    { NoAnswer,
      Answer(<<"Here", " ", "you", " ", "go", ".">>),
      Answer(Found),
      Answer(Doc("sections", Arr(<<Unmatched>>))),
      Answer(<<"I", " ", "cannot", " ", "help", ".", " ">> \o Found),
      Answer(<<DottedI, DottedI, DottedI, LongWord, "content", " ", "policy", " ">> \o Found),
      Answer(<<"III", LongWord, "content", " ", "policy", " ">> \o Found) }

\* f_args: the category list and the answer to each pass.  f_ret: the pass
\* in hand, the calls of call_ai so far, and how the function ended.
IdentifyInit ==
    /\ PIdle
    /\ AIdle
    /\ f_pc = "pass"
    /\ f_args \in { [categories |-> c, answers |-> a]
                    : c \in {[given |-> TRUE, list |-> <<Category("hate", TRUE)>>]},
                      a \in [1..MAX_RETRIES -> PassAnswers] }
    /\ f_ret = [attempt |-> 1, calls |-> 0, out |-> "running", val |-> <<>>]

\* One pass of the retry loop: the sections are returned, or the pass failed
\* and is followed by the next pass or, after the last one, by the raise.
IdentifyStep ==
    /\ f_pc = "pass"
    /\ \E r \in {IdentifyPass(f_args.categories, f_args.answers[f_ret.attempt])} :
          IF r.out = "return"
          THEN /\ f_ret' = [f_ret EXCEPT !.calls = @ + r.called, !.out = "return",
                                         !.val = r.val]
               /\ f_pc' = "done"
          ELSE IF Retries(f_ret.attempt)
          THEN /\ f_ret' = [f_ret EXCEPT !.calls = @ + r.called, !.attempt = @ + 1]
               /\ f_pc' = "pass"
          ELSE /\ f_ret' = [f_ret EXCEPT !.calls = @ + r.called, !.out = "raise"]
               /\ f_pc' = "done"
    /\ UNCHANGED f_args
    /\ UNCHANGED pvars
    /\ UNCHANGED avars

SpecIdentify == IdentifyInit /\ [][IdentifyStep]_vars

\* ========================================================= output file runs
\* The output file of an analyze run.  analyze_with_ai only writes to it, so
\* the file is followed here on its own, through the writes of one run in
\* the order analyze_with_ai makes them.  The file is a sequence of parts,
\* each ending in a blank line: the header, the three parts of the overview,
\* and one part per section block.
MaxStreamed == 2     \* sections the loop over the chunks produces

\* The sections a run may produce from a transcript with speech: the routine
\* section the loop builds, a detailed section with one quote or with two,
\* two detailed sections with a quote the parsers let through that has no
\* text or is no object, and a detailed section whose category is null.
GoodQuote == Obj(<<Field("timestamp", <<"0", ":", "10">>),
                   Field("text", <<"hello", " ", "world">>),
                   Field("significance", <<"d1">>)>>)
PlainQuote == Obj(<<Field("timestamp", <<"0", ":", "40">>),
                    Field("text", <<"bye", " ", "now">>)>>)
BareQuote == Obj(<<Field("timestamp", <<"0", ":", "10">>)>>)
StreamedSections ==
    { RoutineFound(Routine, 10).val,
      WithQuotes(Hate, 10, 40, <<GoodQuote>>).val,
      WithQuotes(Hate, 10, 40, <<GoodQuote, PlainQuote>>).val,
      WithQuotes(Hate, 10, 40, <<GoodQuote, BareQuote>>).val,
      WithQuotes(Hate, 10, 40, <<Num>>).val,
      [WithQuotes(Hate, 10, 40, <<GoodQuote>>).val EXCEPT !.category = Null] }

\* Transcript texts for the safety check: none, empty, short, and long ones
\* with and without a word for music.
LongText == <<"a", " ", "long", " ", "talk", " ", "about", " ", "this", " ", "and", " ",
              "that", " ", "and", " ", "more", " ", "and", " ", "even", " ", "more", " ",
              "of", " ", "it">>
DefaultTexts ==
    { Null, Str(<<>>), Str(<<" ", NL>>), Str(JoinTexts(Transcript(1))), Str(LongText),
      Str(LongText \o <<" ", "[", "Music", "]">>) }

\* A run about to write the header.  f_args: the segments and the transcript
\* text of the command and the sections its loop will produce, in order (none
\* when there is no speech).  f_ret: the file, the in-memory list, the lines
\* logged about the file, and how the run ended.
WriteInit ==
    /\ PIdle
    /\ AIdle
    /\ f_pc = "header"
    /\ f_args \in { [sections |-> <<>>, segments |-> l, text |-> t]
                     : l \in {<<>>, Transcript(1)}, t \in DefaultTexts }
                  \cup { [sections |-> ss, segments |-> Transcript(1),
                          text |-> Str(JoinTexts(Transcript(1)))]
                         : ss \in SeqsUpTo(StreamedSections, MaxStreamed) \ {<<>>} }
    /\ f_ret = [file |-> <<>>, analyzed_sections |-> <<>>, log |-> <<>>, out |-> "running"]

\* The header write of analyze_with_ai: it succeeds, or its exception
\* leaves analyze_with_ai through the handler that raises again, with the
\* file as far as it was written.
WriteHeader(outcome, texts) ==
    /\ f_pc = "header"
    /\ \E w \in {write_header(f_ret.file, outcome, texts)} :
       IF w.raised
       THEN /\ f_ret' = [f_ret EXCEPT !.file = w.file, !.out = "raised"]
            /\ f_pc' = "done"
       ELSE /\ f_ret' = [f_ret EXCEPT !.file = w.file]
            /\ f_pc' = "sections"
    /\ UNCHANGED f_args
    /\ UNCHANGED pvars
    /\ UNCHANGED avars

\* The next section of the loop: appended to the list, then written.
StreamSection(outcome, texts) ==
    /\ f_pc = "sections"
    /\ Len(f_ret.analyzed_sections) < Len(f_args.sections)
    /\ \E section \in {f_args.sections[Len(f_ret.analyzed_sections) + 1]} :
       \E w \in {write_section_to_file(f_ret.file, section, outcome, texts)} :
          f_ret' = [f_ret EXCEPT !.analyzed_sections = Append(@, section),
                                 !.file = w.file,
                                 !.log = @ \o w.log]
    /\ UNCHANGED <<f_pc, f_args>>
    /\ UNCHANGED pvars
    /\ UNCHANGED avars

\* The loop over the identified sections of a chunk raises (an entry that is
\* no object, a routine entry without a description): the exception leaves
\* analyze_with_ai, with the file as the writes so far made it.
LoopRaises ==
    /\ f_pc = "sections"
    /\ f_args.segments # <<>>
    /\ f_ret' = [f_ret EXCEPT !.out = "raised in loop"]
    /\ f_pc' = "done"
    /\ UNCHANGED f_args
    /\ UNCHANGED pvars
    /\ UNCHANGED avars

\* After the loop: the default section, appended and written when the list
\* is empty; the check raises when the transcript text is no text.
SafetyNet(outcome, texts) ==
    /\ f_pc = "sections"
    /\ Len(f_ret.analyzed_sections) = Len(f_args.sections)
    /\ IF DefaultRaises(f_ret.analyzed_sections, f_args.text)
       THEN /\ f_ret' = [f_ret EXCEPT !.out = "raised in check"]
            /\ f_pc' = "done"
       ELSE /\ \E all \in {WithDefault(f_ret.analyzed_sections, f_args.segments,
                                        f_args.text.s)} :
               \E w \in {IF all = f_ret.analyzed_sections
                         THEN [file |-> f_ret.file, log |-> <<>>]
                         ELSE write_section_to_file(f_ret.file, all[Len(all)],
                                                    outcome, texts)} :
                  f_ret' = [f_ret EXCEPT !.analyzed_sections = all,
                                         !.file = w.file,
                                         !.log = @ \o w.log]
            /\ f_pc' = "overview"
    /\ UNCHANGED f_args
    /\ UNCHANGED pvars
    /\ UNCHANGED avars

\* The overview, made from the sections for the answer call_ai gives and
\* prepended to the file, and the return of analyze_with_ai.
PrependSummary(answer, outcome, texts) ==
    /\ f_pc = "overview"
    /\ \E r \in {generate_video_summary_from_sections(f_ret.analyzed_sections, answer)} :
       \E w \in {prepend_summary_to_file(f_ret.file, r.summary, outcome, texts)} :
          f_ret' = [f_ret EXCEPT !.file = w.file, !.log = @ \o w.log, !.out = "returned"]
    /\ f_pc' = "done"
    /\ UNCHANGED f_args
    /\ UNCHANGED pvars
    /\ UNCHANGED avars

WriteNext ==
    \/ \E outcome \in WriteOutcomes, texts \in CutPoints : WriteHeader(outcome, texts)
    \/ \E outcome \in WriteOutcomes, texts \in CutPoints : StreamSection(outcome, texts)
    \/ LoopRaises
    \/ \E outcome \in WriteOutcomes, texts \in CutPoints : SafetyNet(outcome, texts)
    \/ \E answer \in SummaryAnswers, outcome \in WriteOutcomes, texts \in CutPoints :
          PrependSummary(answer, outcome, texts)

SpecWrite == WriteInit /\ [][WriteNext]_vars

\* ============================================================ command runs
\* main called on one command read from standard input, for every way the
\* handler it dispatches to can end.
KnownCommands == {"transcribe", "analyze", "check_model", "check_dependencies"}
\* "None" is the command of an object without a "command" key.
Commands == KnownCommands \cup {"bogus", "Analyze", "", "None"}
StdinKinds == {"garbled", "list", "object"}
\* How a handler ends: it returns, it raises, or it raises an ImportError (a
\* module imported on first use is missing).
HandlerEnds == {"returns", "raises", "raises_import"}

Ended(lines, code, ran, requests) ==
    [stdout |-> lines, exit_code |-> code, ran |-> ran, requests |-> requests]

\* An exit request that main's handler would take for an exception.
ExitCaught(lines, ran) ==
    Ended(lines \o <<Error("Service error")>>, 1, ran, 0)

\* sys.exit(1) inside the try of main: SystemExit is no Exception, the
\* handler lets it through.
sys_exit(lines, ran) == Ended(lines, 1, ran, 0)

\* An exception reaches the handler of main.
ServiceFails(lines, ran) == Ended(lines \o <<Error("Service error")>>, 1, ran, 0)

\* What "import whisper" does in transcribe_audio: it binds the package,
\* raises ImportError (the package is missing), or raises another exception
\* (the package is there and fails while it loads).
ImportOutcomes == {"ok", "missing", "broken"}

\* main, on a decoded command; a.fields says whether the keys the command
\* indexes are there, a.whisper what the import of the whisper package does.
\* The transcription and the analysis are summarised by their first
\* progress line and their way of ending; a transcription whose import
\* raises fails before its first progress line; every ImportError of a
\* transcription is reported as whisper not installed, every other
\* exception as a failed transcription; the check of the dependencies
\* catches the ImportError of its imports only; an
\* analysis with the ollama provider starts with the availability probe,
\* whose failure ends it.
main(a) ==
    CASE a.stdin # "object" -> ServiceFails(<<>>, <<>>)
      [] a.stdin = "object" /\ a.command = "transcribe" ->
           IF ~a.fields THEN ServiceFails(<<>>, <<>>)
           ELSE IF a.whisper = "missing"
           THEN ServiceFails(<<Error("Whisper not installed")>>, <<"transcribe">>)
           ELSE IF a.whisper = "broken"
           THEN ServiceFails(<<Error("Transcription failed")>>, <<"transcribe">>)
           ELSE IF a.ends = "raises_import"
           THEN ServiceFails(<<Progress(0), Error("Whisper not installed")>>, <<"transcribe">>)
           ELSE IF a.ends = "raises"
           THEN ServiceFails(<<Progress(0), Error("Transcription failed")>>, <<"transcribe">>)
           ELSE Ended(<<Progress(0), Progress(100), Result>>, 0, <<"transcribe">>, 0)
      [] a.stdin = "object" /\ a.command = "analyze" ->
           IF ~a.fields \/ (a.provider \in CloudProviders /\ ~a.api_key)
           THEN ServiceFails(<<>>, <<>>)
           ELSE LET r == IF a.provider = "ollama"
                         THEN check_ollama_model(a.step1, a.step2)
                         ELSE [ok |-> TRUE, requests |-> 0, errors |-> <<>>]
                IN IF ~r.ok \/ a.ends # "returns"
                   THEN Ended(<<Progress(0)>> \o r.errors
                                \o <<Error("AI analysis failed"), Error("Service error")>>,
                              1, <<"analyze">>, r.requests)
                   ELSE Ended(<<Progress(0)>> \o r.errors \o <<Progress(100), Result>>,
                              0, <<"analyze">>, r.requests)
      [] a.stdin = "object" /\ a.command = "check_model" ->
           IF ~a.fields THEN ServiceFails(<<>>, <<>>)
           ELSE LET r == check_ollama_model(a.step1, a.step2) IN
                Ended(r.errors \o <<Result>>, 0, <<"check_model">>, r.requests)
      [] a.stdin = "object" /\ a.command = "check_dependencies" ->
           IF a.whisper = "broken" THEN ServiceFails(<<>>, <<"check_dependencies">>)
           ELSE Ended(<<Result>>, 0, <<"check_dependencies">>, 0)
      [] OTHER -> sys_exit(<<Error("Unknown command")>>, <<>>)

MainInit ==
    /\ PIdle
    /\ AIdle
    /\ f_pc = "call"
    /\ f_args \in [stdin : StdinKinds, command : Commands, fields : BOOLEAN,
                   provider : Providers, api_key : BOOLEAN, ends : HandlerEnds,
                   whisper : ImportOutcomes,
                   step1 : {"ok", "unlisted", "refused"},
                   step2 : {"ok", "refused", "connect_timeout"}]
    /\ f_ret = <<>>

\* One run of main.
RunMain ==
    /\ f_pc = "call"
    /\ f_ret' = main(f_args)
    /\ f_pc' = "done"
    /\ UNCHANGED f_args
    /\ UNCHANGED pvars
    /\ UNCHANGED avars

SpecMain == MainInit /\ [][RunMain]_vars

\* ========================================================= chunk pass runs
\* The loop of analyze_with_ai over the sections identified in one chunk,
\* for the answers call_ai gives to the calls of the passes.
MaxSections == 2     \* sections identified in a chunk

PassSection(start_phrase, end_phrase) ==
    Obj(<<Field("start_phrase", start_phrase), Field("end_phrase", end_phrase),
          Field("category", <<"hate">>), Field("description", <<"d1">>)>>)

\* Sections whose phrases are in the speech (in order, or the end before the
\* start), a section whose start or whose end is not, a routine one, and an
\* entry that is no object.
PassSections ==
    { PassSection(<<"hello", " ", "world">>, <<"bye", " ", "now">>),
      PassSection(<<"bye", " ", "now">>, <<"hello", " ", "world">>),
      PassSection(<<"nope">>, <<"bye", " ", "now">>),
      PassSection(<<"hello", " ", "world">>, <<"nope">>),
      Routine, Num }

PassInit ==
    /\ PIdle
    /\ AfterHeader
    /\ f_pc = "loop"
    /\ f_args \in { [sections |-> s, segments |-> l, answers |-> a]
                    : s \in SeqsUpTo(PassSections, MaxSections) \ {<<>>},
                      l \in {Transcript(1), SubSeq(Transcript(1), 1, 1)},
                      a \in [1..MaxSections -> QuoteAnswers] }
    /\ f_ret = [todo |-> f_args.sections, analyzed_sections |-> <<>>, infer |-> 0,
                passes |-> <<>>]

\* One pass of the loop: the section in hand is appended and written, or
\* skipped, and the loop goes on to the next one; an exception leaves the
\* loop.
PassStep ==
    /\ f_pc = "loop"
    /\ \E section \in {Head(f_ret.todo)}, answer \in {f_args.answers[Len(f_ret.passes) + 1]} :
       \E r \in {SectionPass(section, f_args.segments, answer)} :
          /\ f_ret' = [todo |-> IF r.out = "raise" THEN f_ret.todo ELSE Tail(f_ret.todo),
                       analyzed_sections |->
                           IF r.out = "append" THEN Append(f_ret.analyzed_sections, r.val)
                           ELSE f_ret.analyzed_sections,
                       infer |-> f_ret.infer + r.called,
                       passes |-> Append(f_ret.passes, [out |-> r.out, called |-> r.called])]
          /\ PassWrites(r)
          /\ f_pc' = IF r.out = "raise" THEN "raised"
                     ELSE IF Tail(f_ret.todo) = <<>> THEN "done" ELSE "loop"
    /\ UNCHANGED f_args
    /\ UNCHANGED pvars
    /\ UNCHANGED nofile

SpecPass == PassInit /\ [][PassStep]_vars

\* ========================================================= extraction runs
\* Phases 2 to 4 of analyze_section_detail, for a section whose phrases were
\* found at start_time and end_time in segments of any length.
ExtractStarts == {0, 8, 20}
ExtractLengths == {4, 33, 40}

\* Segment lists of a chunk: start times do not decrease.
ExtractLists ==
    LET Spans == ExtractStarts \X ExtractLengths
        Ordered(f) == \A n \in 1..(Len(f) - 1) : f[n][1] <= f[n + 1][1]
    IN { [n \in 1..Len(f) |-> [start |-> f[n][1], end |-> f[n][1] + f[n][2],
                               text |-> <<"d1">>]]
         : f \in { g \in SeqsUpTo(Spans, MaxSegments) \ {<<>>} : Ordered(g) } }

\* The times phase 1 hands on: the start of a segment, and the start of a
\* later segment or the time EndBuffer seconds after the start.
SpanEnds(l, start_time) ==
    { l[n].start : n \in { k \in 1..Len(l) : l[k].start > start_time } }
    \cup {start_time + EndBuffer}

ExtractInit ==
    /\ PIdle
    /\ AIdle
    /\ f_pc = "call"
    /\ f_args \in UNION { UNION { { [segments |-> l, start_time |-> l[n].start,
                                     end_time |-> e, answer |-> a]
                                    : e \in SpanEnds(l, l[n].start), a \in QuoteAnswers }
                                  : n \in 1..Len(l) }
                          : l \in ExtractLists }
    /\ f_ret = <<>>

\* The extraction of the section's segments and what follows it.
Extract ==
    /\ f_pc = "call"
    /\ f_ret' = [used |-> section_segments(f_args.segments, f_args.start_time,
                                           f_args.end_time),
                 detail |-> Extracted(Hate, f_args.segments, f_args.answer,
                                      f_args.start_time, f_args.end_time)]
    /\ f_pc' = "done"
    /\ UNCHANGED f_args
    /\ UNCHANGED pvars
    /\ UNCHANGED avars

SpecExtract == ExtractInit /\ [][Extract]_vars

\* =========================================================== progress runs
\* The progress reports of the chunk loop of analyze_with_ai, for a
\* transcript of any number of chunks, each of which fails or succeeds.
MaxTotal == 40       \* chunks of a transcript

\* f_args: the number of chunks.  f_ret: the chunks gone through, the
\* reports sent since the chunking, and whether the last chunk failed.
PercentInit ==
    /\ PIdle
    /\ AIdle
    /\ f_args \in { [total_chunks |-> n] : n \in 0..MaxTotal }
    /\ f_pc = IF f_args.total_chunks = 0 THEN "done" ELSE "loop"
    /\ f_ret = [completed_chunks |-> 0,
                reports |-> <<IF f_args.total_chunks = 1 THEN -1 ELSE 0>>,
                failed |-> FALSE]

\* The end of a chunk's pass through the loop, after a failure or not: the
\* count and, for more than one chunk, the report.
ChunkEnds(failed) ==
    /\ f_pc = "loop"
    /\ f_ret' = [completed_chunks |-> f_ret.completed_chunks + 1,
                 reports |-> IF f_args.total_chunks > 1
                             THEN Append(f_ret.reports,
                                         RoundPercent(f_ret.completed_chunks + 1,
                                                      f_args.total_chunks))
                             ELSE f_ret.reports,
                 failed |-> failed]
    /\ f_pc' = IF f_ret.completed_chunks + 1 = f_args.total_chunks THEN "done" ELSE "loop"
    /\ UNCHANGED f_args
    /\ UNCHANGED pvars
    /\ UNCHANGED avars

SpecPercent == PercentInit /\ [][\E failed \in BOOLEAN : ChunkEnds(failed)]_vars

\* ============================================================ matching runs
\* The matching loop of find_phrase_timestamp over the words of one
\* segment, one phrase word at a time.
MaxWords == 3        \* words of a phrase, and of a segment

\* Words of which one is part of another.
MatchWords == { <<"a">>, <<"b">>, <<"a", "b">>, <<"c">> }

\* A loop whose cursor goes back to the first segment word for every phrase
\* word.
CursorRestarts(hits, segment_words) == 1

\* The cursor after the scan for one phrase word: past the first segment
\* word that matched, or past the last segment word when none did.
CursorAfter(hits, segment_words) ==
    IF hits = {} THEN Len(segment_words) + 1 ELSE Min(hits) + 1

\* The scan for one phrase word from the cursor on.  taken holds, for each
\* phrase word so far, the segment word that matched it (0: none).
ScanWord(phrase_word, segment_words, s) ==
    LET hits == { j \in s.segment_idx..Len(segment_words) :
                    WordMatch(phrase_word, segment_words[j]) }
    IN [segment_idx |-> CursorAfter(hits, segment_words),
        matches |-> IF hits = {} THEN s.matches ELSE s.matches + 1,
        taken |-> Append(s.taken, IF hits = {} THEN 0 ELSE Min(hits))]

\* f_args: the words of the phrase and of the segment.  f_ret: the cursor
\* (the first segment word not yet passed), the matches and the segment
\* words taken.
MatchInit ==
    /\ PIdle
    /\ AIdle
    /\ f_pc = "scan"
    /\ f_args \in { [phrase_words |-> p, segment_words |-> w]
                    : p \in SeqsUpTo(MatchWords, MaxWords) \ {<<>>},
                      w \in SeqsUpTo(MatchWords, MaxWords) \ {<<>>} }
    /\ f_ret = [segment_idx |-> 1, matches |-> 0, taken |-> <<>>]

\* One pass of the loop over the phrase words.
Scan ==
    /\ f_pc = "scan"
    /\ f_ret' = ScanWord(f_args.phrase_words[Len(f_ret.taken) + 1],
                         f_args.segment_words, f_ret)
    /\ f_pc' = IF Len(f_ret.taken) + 1 = Len(f_args.phrase_words) THEN "done" ELSE "scan"
    /\ UNCHANGED f_args
    /\ UNCHANGED pvars
    /\ UNCHANGED avars

SpecMatch == MatchInit /\ [][Scan]_vars

\* ================================================================= claims
InSeq(x, s) == \E k \in 1..Len(s) : s[k] = x

\* C1: every run of analyze_with_ai that returns, returns a result whose
\* sections_count is at least 1 (and is the length of its section list).
C1_ResultNeverEmpty ==
    result.some =>
        /\ result.sections_count >= 1
        /\ result.sections_count = Len(result.sections)

\* C1 witness: a run returned after every one of its two chunks failed, so
\* that the chunk loop ended with no section at all.
C1_Witness ==
    /\ result.some
    /\ Len(all_chunks) = 2
    /\ failed_chunks = <<1, 2>>
    /\ result.sections_count = 1

\* The step in which identification gives up on the chunk in hand: its last
\* pass fails.
GivesUp == pc = "identify" /\ attempt = MAX_RETRIES /\ ident' # ident /\ pc' # "sections"

\* C2: when section identification gives up on chunk i, analyze_with_ai
\* records chunk i as failed, raises nothing and ends nothing, and goes on to
\* the identification of chunk i+1 (to the end of the loop after the last
\* chunk); no run returns with a chunk whose identification was not run.
C2_ExhaustionNotFatal ==
    /\ [](result.some => \A c \in 1..Len(all_chunks) : ident[c].attempts >= 1)
    /\ [][GivesUp =>
            /\ failed_chunks' = Append(failed_chunks, chunk_i)
            /\ ~raised' /\ exit_code' = -1
            /\ IF chunk_i < Len(all_chunks)
               THEN pc' = "identify" /\ chunk_i' = chunk_i + 1 /\ attempt' = 1
               ELSE pc' = "complete"]_vars

\* C2 witness: a run returned in which chunk 1 was given up and chunk 2 was
\* identified and gave its two sections.
C2_Witness ==
    /\ result.some
    /\ failed_chunks = <<1>>
    /\ Len(all_chunks) = 2
    /\ ident[2].attempts >= 1
    /\ result.sections_count = 2

\* C3: for each chunk the retry loop makes at most 3 passes, each with one
\* inference call; while the loop runs, the passes made are the failed ones
\* so far; and the chunk is given up only after 3 failed passes.
C3_AtMostThreeAttempts ==
    /\ \A c \in DOMAIN ident :
          /\ ident[c].attempts <= MAX_RETRIES
          /\ ident[c].calls <= ident[c].attempts
          /\ ~ConfigError(categories) => ident[c].calls = ident[c].attempts
          /\ InSeq(c, failed_chunks) => ident[c].attempts = MAX_RETRIES
    /\ pc = "identify" =>
          /\ attempt \in 1..MAX_RETRIES
          /\ ident[chunk_i].attempts = attempt - 1

\* C3 witness: a chunk was given up after exactly 3 inference calls, and
\* another was identified on its second pass.
C3_Witness ==
    /\ \E c \in DOMAIN ident : InSeq(c, failed_chunks) /\ ident[c].calls = MAX_RETRIES
    /\ \E c \in DOMAIN ident : ~InSeq(c, failed_chunks) /\ ident[c].calls = 2 /\ chunk_i > c

\* C4 (as claimed): once prompt construction has raised a configuration
\* error the run has failed: analyze_with_ai raised, prompt construction is
\* not attempted again, and no result is returned.
C4_ConfigErrorFailsRun ==
    cfg.raised > 0 => raised /\ cfg.raised = 1 /\ ~result.some

\* C5 (as claimed): the configuration error is raised before any network
\* call: no request of the availability probe and no inference call
\* precedes it.
C5_ConfigErrorBeforeNetwork ==
    cfg.raised > 0 => cfg.before = 0

\* The error lines of check_ollama_model.
ProbeErrors ==
    { "server returned HTTP status", "cannot connect", "model loading timed out",
      "model failed", "cannot connect or load model" }

\* The availability probe reported failure.
ProbeFailed == \E k \in 1..Len(stdout) : stdout[k].type = "error" /\ stdout[k].msg \in ProbeErrors

\* C6: after a failed availability probe the run has ended in error, with no
\* chunk made or processed, no inference call and no result; and only the
\* ollama provider is ever probed.
C6_ProbeFailureAborts ==
    /\ provider # "ollama" => probes = 0
    /\ (provider = "ollama" /\ pc \notin {"main", "probe"}) => probes \in {1, 2}
    /\ ProbeFailed =>
          /\ pc = "exit" /\ raised /\ exit_code = 1
          /\ infer = 0 /\ all_chunks = <<>> /\ ident = <<>>
          /\ completed_chunks = 0 /\ analyzed_sections = <<>>
          /\ ~result.some

\* C6 witness: the probe failed in a run with speech to analyze and a valid
\* category list, and the run ended.
C6_Witness ==
    /\ ProbeFailed /\ pc = "exit"
    /\ cmd_segments # <<>> /\ ~ConfigError(categories)

\* An entry the claims call well-formed: a JSON object with every required
\* field.
WellFormed(kind, e) == e.t = "obj" /\ AllIn(RequiredKeys(kind), e)

\* The validation loop of the JSON branch met an entry it cannot test or
\* print.
ValidationRaises(kind, response) ==
    /\ HasList(kind, response)
    /\ \E n \in 1..Len(DecodedEntries(kind, response)) :
           EntryRaises(kind, RequiredKeys(kind), DecodedEntries(kind, response)[n])

\* C7: parse_section_response and parse_quotes_response are total: on every
\* text they end after at most the two stages, return a list and let no
\* exception out.
C7_ParsersTotal ==
    /\ Len(p_trace) <= 2
    /\ p_pc = "done" => ~p_raised /\ DOMAIN p_ret = 1..Len(p_ret)

\* C7 witness: a parse came to its end on a text whose list holds an entry
\* that made the validation loop raise.
C7_Witness == p_pc = "done" /\ ValidationRaises(p_kind, p_resp) /\ ~p_raised

\* C8 (as claimed): what structured mode returns is exactly the well-formed
\* entries of the decoded list, in order; a malformed entry is dropped alone.
C8_StructuredKeepsOnlyValid ==
    (p_pc = "done" /\ p_trace = <<"structured">>) =>
        LET Good(e) == WellFormed(p_kind, e)
        IN p_ret = SelectSeq(DecodedEntries(p_kind, p_resp), Good)

\* C9 (as claimed): every item legacy mode returns carries all of its
\* required labels.
C9_LegacyKeepsOnlyComplete ==
    (p_pc = "done" /\ p_trace = <<"structured", "legacy">>) =>
        \A n \in 1..Len(p_ret) : AllIn(RequiredKeys(p_kind), p_ret[n])

\* The number of well-formed entries the JSON object of the text yields.
ValidCount(kind, response) ==
    LET Good(e) == WellFormed(kind, e)
    IN IF HasList(kind, response) THEN Len(SelectSeq(DecodedEntries(kind, response), Good))
       ELSE 0

\* C10: structured mode runs first, and legacy mode is attempted exactly
\* when structured mode found no parseable object or produced zero valid
\* entries.  Violated: a decoded list is returned as the JSON branch leaves
\* it, without legacy parsing, when none of its entries is valid.
C10_LegacyWhenNoValidEntries ==
    p_pc = "done" =>
        /\ p_trace[1] = "structured"
        /\ ("legacy" \in {p_trace[n] : n \in 1..Len(p_trace)})
               <=> (ValidCount(p_kind, p_resp) = 0)

\* ---------------------------------------------------------------- C11
\* Section content: lists of complete entries with text values.
Contents == SeqsUpTo({PlainEntry, MarkerEntry}, MaxEntries)

\* The content as the JSON payload, and as the legacy labelled lines: a
\* header, then per entry the item marker and the four labelled lines.
AsJson(content) == Doc("sections", Arr(content))
LegacyItem(e) ==
    <<"Section", " ", "1", ":", NL>>
    \o <<"Start", ":", " ", QT>> \o Get(e, "start_phrase").s \o <<QT, NL>>
    \o <<"End", ":", " ", QT>> \o Get(e, "end_phrase").s \o <<QT, NL>>
    \o <<"Category", ":", " ">> \o Get(e, "category").s \o <<NL>>
    \o <<"Description", ":", " ">> \o Get(e, "description").s \o <<NL>>
AsLegacy(content) ==
    <<"INTERESTING", " ", "SECTIONS", ":", NL>>
    \o Concat([n \in 1..Len(content) |-> LegacyItem(content[n])])

\* Two lists of sections agree in length and in the four fields.
HasFields(e) == e.t = "obj" /\ AllIn(SECTION_KEYS, e)
SameFields(a, b) ==
    /\ Len(a) = Len(b)
    /\ \A n \in 1..Len(a) :
          /\ HasFields(a[n]) /\ HasFields(b[n])
          /\ \A k \in 1..Len(SECTION_KEYS) :
                Get(a[n], SECTION_KEYS[k]) = Get(b[n], SECTION_KEYS[k])

\* C11: when parse_section_response has returned for the JSON payload of a
\* content, its sections have the same length and the same start_phrase,
\* end_phrase, category and description as the sections it returns for the
\* same content in the legacy labelled lines.
C11_FormatsAgree ==
    (p_pc = "done" /\ p_kind = "sections") =>
        \A content \in Contents :
            p_resp = AsJson(content) =>
                SameFields(p_ret, parse_section_response(AsLegacy(content)))

\* C11: the two formats agree for content without the item marker.
C11_PlainAgrees ==
    p_pc = "done" /\ p_kind = "sections" /\ p_resp = AsJson(<<PlainEntry, PlainEntry>>)
    /\ SameFields(p_ret, parse_section_response(AsLegacy(<<PlainEntry, PlainEntry>>)))
    /\ Len(p_ret) = 2
\* ---------------------------------------------------------------- C12
\* The segments of the chunks, and the texts of the chunks, in order.
RECURSIVE ChunkSegments(_)
ChunkSegments(chunks) ==
    IF chunks = <<>> THEN <<>> ELSE chunks[1].segments \o ChunkSegments(Tail1(chunks))
RECURSIVE ChunkTexts(_)
ChunkTexts(chunks) ==
    IF chunks = <<>> THEN <<>>
    ELSE chunks[1].text \o (IF Len(chunks) > 1 THEN <<" ">> \o ChunkTexts(Tail1(chunks))
                            ELSE <<>>)

\* C12: the chunks chunk_transcript returned hold every segment of the list
\* exactly once and in the order of the list, and their texts, in order, are
\* the texts of all the segments in order.
C12_EverySegmentOnce ==
    pc = "chunked" =>
        /\ ChunkSegments(all_chunks) = cmd_segments
        /\ ChunkTexts(all_chunks) = JoinTexts(cmd_segments)
\* ---------------------------------------------------------------- C13
\* The end of the last segment, and the starts of the windows below it.
LastEnd == cmd_segments[Len(cmd_segments)].end
WindowStarts == { w \in 0..LastEnd : w % (ChunkMinutes * 60) = 0 /\ w < LastEnd }

\* C13: the windows of the chunks chunk_transcript returned do not overlap
\* and cover [0, last segment end): a chunk ends no later than the next one
\* starts, every chunk starts at a multiple of the window duration and ends
\* at the end of its window or at the last segment's end, whichever is
\* first, and every window below the last segment's end is the window of a
\* chunk unless no segment starts in it.
C13_WindowsDoNotOverlap ==
    (pc = "chunked" /\ cmd_segments # <<>>) =>
        /\ \A n \in 1..(Len(all_chunks) - 1) :
              all_chunks[n].end_time <= all_chunks[n + 1].start_time
        /\ \A n \in 1..Len(all_chunks) :
              /\ all_chunks[n].start_time % (ChunkMinutes * 60) = 0
              /\ all_chunks[n].start_time >= 0
              /\ all_chunks[n].end_time <= LastEnd
              /\ all_chunks[n].end_time =
                     Min({all_chunks[n].start_time + ChunkMinutes * 60, LastEnd})
        /\ \A w \in WindowStarts :
              \/ \E n \in 1..Len(all_chunks) : all_chunks[n].start_time = w
              \/ \A k \in 1..Len(cmd_segments) :
                    ~(cmd_segments[k].start >= w
                      /\ cmd_segments[k].start < w + ChunkMinutes * 60)

\* C13: two chunks were returned, with windows left out between them, and
\* the second one ends at the last segment's end before its window does.
C13_Witness ==
    /\ pc = "chunked"
    /\ Len(all_chunks) = 2
    /\ all_chunks[1].end_time < all_chunks[2].start_time
    /\ all_chunks[2].end_time < all_chunks[2].start_time + ChunkMinutes * 60
\* ---------------------------------------------------------------- C14
\* The phrase of the call has a word and occurs verbatim in segment n.
Verbatim(n) ==
    /\ f_args.phrase.t = "str"
    /\ Words(f_args.phrase.s) # <<>>
    /\ Contains(f_args.segments[n].text, f_args.phrase.s)

\* Every word of the phrase is matched in segment n: its score is 1.0.
FullScore(n) ==
    LET phrase_words == Words(Strip(LowerText(f_args.phrase.s), WS))
        segment_words == Words(LowerText(Strip(LowerText(f_args.segments[n].text), WS)))
    IN Matches(phrase_words, segment_words, 1, 1) = Len(phrase_words)

\* C14: when the phrase occurs verbatim in a segment's text, every such
\* segment scores 1.0 and find_phrase_timestamp returns the start of such a
\* segment: not none, and not the start of a segment without the phrase.
C14_VerbatimPhraseFound ==
    (f_pc = "done" /\ f_args.phrase.t = "str") =>
        \A n \in 1..Len(f_args.segments) :
            Verbatim(n) =>
                /\ FullScore(n)
                /\ ~f_ret.exc /\ ~f_ret.none
                /\ \E m \in 1..Len(f_args.segments) :
                      Verbatim(m) /\ f_ret.t = f_args.segments[m].start
\* ---------------------------------------------------------------- C15
\* The times the two phrases of the call resolve to.
ResolvedStart ==
    find_phrase_timestamp(GetOr(f_args.section, "start_phrase", Str(<<>>)), f_args.segments)
ResolvedEnd ==
    find_phrase_timestamp(GetOr(f_args.section, "end_phrase", Str(<<>>)), f_args.segments)
BothResolve ==
    /\ f_args.section.t = "obj"
    /\ HasKey(f_args.section, "category") /\ HasKey(f_args.section, "description")
    /\ ~ResolvedStart.exc /\ ~ResolvedStart.none
    /\ ~ResolvedEnd.exc /\ ~ResolvedEnd.none

\* C15: when both phrases resolve and the end is not after the start, the
\* section is not given up as an error (the segments from the start to 30
\* seconds after it are extracted and, if there are any, call_ai is called)
\* and a section that is emitted ends 30 seconds after its start; when the
\* end is after the start, a section that is emitted ends at the end found.
C15_EndAfterStart ==
    (f_pc = "done" /\ BothResolve) =>
        /\ f_ret.some =>
              /\ f_ret.val.start_time = format_display_time(ResolvedStart.t)
              /\ f_ret.val.end_time =
                     EndAt(IF ResolvedEnd.t <= ResolvedStart.t THEN ResolvedStart.t + 30
                           ELSE ResolvedEnd.t)
        /\ (/\ ResolvedEnd.t <= ResolvedStart.t
            /\ \E n \in 1..Len(f_args.segments) :
                  /\ f_args.segments[n].start >= ResolvedStart.t
                  /\ f_args.segments[n].end <= ResolvedStart.t + 30)
           => /\ f_ret.called = 1
              /\ f_ret.some = (f_args.answer.some
                               /\ parse_quotes_response(f_args.answer.text) # <<>>)

\* C15: a section was emitted whose end was found before its start.
C15_Witness ==
    /\ f_pc = "done" /\ BothResolve
    /\ ResolvedEnd.t < ResolvedStart.t
    /\ f_ret.some
    /\ f_ret.val.end_time = EndAt(ResolvedStart.t + 30)
\* ---------------------------------------------------------------- C16
\* C16: for every provider and every outcome of the transport, call_ai
\* returns text or none and no exception leaves it, it issues at most one
\* request, it returns text only for a reply that carries it, and a missing
\* client library gives none without a request.
C16_CallAiNeverRaises ==
    f_pc = "done" =>
        /\ ~f_ret.raised
        /\ f_ret.requests \in {0, 1}
        /\ \/ f_ret.answer = NoAnswer
           \/ /\ f_ret.requests = 1
              /\ f_args.outcome.kind = "reply"
              /\ f_ret.answer = Answer(f_args.outcome.text)
        /\ (f_args.provider \in CloudProviders /\ ~f_args.available)
           => f_ret = Returned(NoAnswer, 0)

\* C16: a request of call_ollama timed out and the call returned none.
C16_Witness ==
    /\ f_pc = "done"
    /\ f_args.provider = "ollama"
    /\ f_args.outcome.kind = "timeout"
    /\ f_ret = Returned(NoAnswer, 1)
\* ---------------------------------------------------------------- C17
\* C17: check_ollama_model returns a boolean for every outcome of its two
\* requests; it issues the generation request only after the reachability
\* request returned status 200, never more than these two requests, and it
\* returns true only if the generation request returned status 200.
C17_ProbeReturnsBoolean ==
    f_pc = "done" =>
        /\ f_ret.ok \in BOOLEAN
        /\ f_ret.requests \in {1, 2}
        /\ f_ret.requests = 2 => f_args.step1 \in {"ok", "unlisted", "garbled"}
        /\ f_ret.ok => (f_ret.requests = 2 /\ f_args.step2 \in {"ok", "garbled"})
        /\ ~f_ret.ok => f_ret.errors # <<>>

\* C17: the server was reachable, the generation request failed, and the
\* probe returned false after two requests.
C17_Witness ==
    /\ f_pc = "done"
    /\ f_args.step1 = "unlisted" /\ f_args.step2 = "status"
    /\ f_ret.ok = FALSE /\ f_ret.requests = 2
\* ---------------------------------------------------------------- C18
\* The lines of one kind on standard output.
LinesOf(type) == { k \in 1..Len(stdout) : stdout[k].type = type }

\* C18 (as claimed): one invocation emits at most one error line and at most
\* one result line, and no line follows the result line.
C18_OneErrorOneResult ==
    /\ Cardinality(LinesOf("error")) <= 1
    /\ Cardinality(LinesOf("result")) <= 1
    /\ \A k \in LinesOf("result") : k = Len(stdout)

\* ---------------------------------------------------------------- C19
\* The section blocks of a file, whole or cut, in the order they stand.
Blocks(file) == SelectSeq(file, LAMBDA part : part.kind \in {"block", "cut"})

\* The parts of the overview that stand in a file.
OverviewParts(file) ==
    SelectSeq(file, LAMBDA part : part.kind \in {"overview", "summary", "rule"})

IsPrefix(a, b) == Len(a) <= Len(b) /\ SubSeq(b, 1, Len(a)) = a

\* The part is the block of the section, as far as its heading tells.
BlockOf(part, section) ==
    [part.section EXCEPT !.quotes = <<>>] = [Shown(section) EXCEPT !.quotes = <<>>]

\* Each part is the block of a section of its own, in the order of the list.
RECURSIVE InOrder(_, _)
InOrder(parts, sections) ==
    IF parts = <<>> THEN TRUE
    ELSE IF sections = <<>> THEN FALSE
    ELSE \/ BlockOf(Head(parts), Head(sections)) /\ InOrder(Tail(parts), Tail(sections))
         \/ InOrder(parts, Tail(sections))

\* A step keeps the blocks already in the file and writes each section at
\* most once, in the order of the in-memory list; once the overview is in
\* the file, it stands after the header and before the blocks.
AppendOnly ==
    /\ IsPrefix(Blocks(f_ret.file), Blocks(f_ret'.file))
    /\ InOrder(Blocks(f_ret'.file), f_ret'.analyzed_sections)
    /\ InSeq(OverviewTitle, f_ret'.file) =>
           f_ret'.file = <<FileHeader>> \o OverviewParts(f_ret'.file) \o Blocks(f_ret.file)

\* C19 (as claimed): across a run the section blocks of the output file are
\* append-only: each section is written at most once, in the order of the
\* in-memory list, and no block already written is removed, altered or
\* reordered by a later section write or by the overview, which is inserted
\* after the header and before the unchanged blocks.
C19_BlocksAppendOnly == [][AppendOnly]_vars

\* The same, for the steps other than an overview write that raises after
\* the file was emptied.
C19_AppendOnlyUnlessCut ==
    [][(f_pc = "overview" /\ f_ret'.log # f_ret.log /\ f_ret'.file # f_ret.file)
       \/ AppendOnly]_vars

\* ---------------------------------------------------------------- C20
\* C20 (as claimed): no failure to write to the output file (header, section
\* append, safety-net section, overview) is fatal: the run goes on and
\* returns its result.
C20_WriteFailuresNotFatal ==
    f_pc = "done" => f_ret.out # "raised"

\* The header write is the only write that ends a run, with a file that
\* holds no header or a part of one: the other runs return, or raise in the
\* loop or in the safety check, outside a write.
C20_LaterWritesNotFatal ==
    /\ f_pc = "done" => f_ret.out \in {"returned", "raised", "raised in loop",
                                        "raised in check"}
    /\ (f_pc = "done" /\ f_ret.out = "raised") =>
           /\ f_ret.file \in {CutHeader(texts) : texts \in 0..(HeaderTexts - 1)}
           /\ f_ret.analyzed_sections = <<>> /\ f_ret.log = <<>>

\* ---------------------------------------------------------------- C21
\* C21 (as claimed): whenever the run is between two sections, the output
\* file is the header followed only by complete section blocks, each with
\* its closing rule: no section write leaves a partial block in the file,
\* whatever quotes the section carries.
C21_NoPartialBlock ==
    f_pc \in {"sections", "overview"} =>
        /\ f_ret.file[1] = FileHeader
        /\ \A k \in 2..Len(f_ret.file) : f_ret.file[k].kind = "block"

\* ---------------------------------------------------------------- C22
\* The first 200 characters of a response contain refusal phrasing, in any
\* letter case.
RefusalAtStart(response) ==
    \E indicator \in refusal_indicators :
        Contains(LowerText(Prefix(response, RefusalWindow)), indicator)

\* C22 (as claimed): a response whose first 200 characters contain refusal
\* phrasing is never accepted as the chunk's result, even with a valid
\* sections object later in the text: the pass fails, and another pass
\* follows while attempts remain.
C22_RefusalNeverAccepted ==
    [][(f_args.answers[f_ret.attempt].some
        /\ RefusalAtStart(f_args.answers[f_ret.attempt].text))
       => /\ f_ret'.out # "return"
          /\ f_ret.attempt < MAX_RETRIES => (f_pc' = "pass" /\ f_ret'.attempt = f_ret.attempt + 1)
          /\ f_ret.attempt = MAX_RETRIES => f_ret'.out = "raise"]_vars

\* The same, for the responses whose lower case has as many characters as
\* the response.
C22_RefusalNotAcceptedPlain ==
    [][(f_args.answers[f_ret.attempt].some
        /\ RefusalAtStart(f_args.answers[f_ret.attempt].text)
        /\ CharLen(LowerText(f_args.answers[f_ret.attempt].text))
               = CharLen(f_args.answers[f_ret.attempt].text))
       => f_ret'.out # "return"]_vars

\* ---------------------------------------------------------------- C23
\* A section as the safety check makes it: routine, from 0:00, no quotes.
IsDefault(section) ==
    /\ section.category = Str(<<"routine">>)
    /\ section.start_time = <<"0", ":", "00">>
    /\ section.quotes = <<>>

\* The step wrote the section to the file: its block is the new last part
\* of the file, and nothing is logged.
WroteBlock(section) ==
    /\ output_file' = Append(output_file, Part("block", Shown(section)))
    /\ file_log' = file_log

\* The write of the section failed in the step: the failure is logged, and
\* the file is as it was or has a cut block of the section as its new last
\* part.
WriteFailed(section) ==
    /\ file_log' = Append(file_log, "Error writing to file")
    /\ \/ output_file' = output_file
       \/ /\ IsPrefix(output_file, output_file')
          /\ Len(output_file') = Len(output_file) + 1
          /\ output_file'[Len(output_file')].kind = "cut"
          /\ BlockOf(output_file'[Len(output_file')], section)

\* The step leaves the file and its log alone.
FileUntouched == output_file' = output_file /\ file_log' = file_log

\* The complete blocks of a file.
WholeBlocks(file) == SelectSeq(file, LAMBDA part : part.kind = "block")

IsRoutine == GetOr(f_args.section, "category", Null) = Str(<<"routine">>)

\* C24: for a routine section no inference call is made; when its start
\* phrase is found the section is emitted from that time with no end time
\* and with the representative quote alone, if the model gave one; when it
\* is not found the section is dropped.  A section of another category has
\* the outcome analyze_section_detail gives it.
C24_RoutineNeedsNoCall ==
    f_pc = "done" =>
        IF f_args.section.t = "obj" /\ IsRoutine
        THEN /\ f_ret.called = 0
             /\ ResolvedStart.none => f_ret.out = "skip"
             /\ ~ResolvedStart.none =>
                   /\ f_ret.out = "append"
                   /\ f_ret.val.start_time = format_display_time(ResolvedStart.t)
                   /\ f_ret.val.end_time = NoEnd
                   /\ f_ret.val.category = Str(<<"routine">>)
                   /\ Len(f_ret.val.quotes) =
                          (IF HasKey(f_args.section, "quote") THEN 1 ELSE 0)
                   /\ \A n \in 1..Len(f_ret.val.quotes) :
                          Get(f_ret.val.quotes[n], "text") = Get(f_args.section, "quote")
        ELSE /\ f_ret.called =
                    analyze_section_detail(f_args.section, f_args.segments, f_args.answer).called
             /\ f_ret.out = "append" <=>
                    analyze_section_detail(f_args.section, f_args.segments, f_args.answer).some
             /\ f_ret.out = "append" =>
                    f_ret.val = analyze_section_detail(f_args.section, f_args.segments,
                                                       f_args.answer).val

\* C24 witness: a routine section with a quote was emitted without a call,
\* for an answer that a detailed section would have been given quotes from.
C24_Witness ==
    /\ f_pc = "done" /\ IsRoutine
    /\ f_ret.out = "append" /\ f_ret.called = 0 /\ Len(f_ret.val.quotes) = 1
    /\ f_args.answer.some /\ parse_quotes_response(f_args.answer.text) # <<>>

\* ---------------------------------------------------------------- C25
\* C25 (as claimed): when at least one chunk failed, the run ends without
\* raising, and the last progress line of the run reports the failed chunks.
C25_FailedChunksInFinalMessage ==
    (pc = "exit" /\ failed_chunks # <<>>) =>
        /\ ~raised
        /\ \E k \in LinesOf("progress") :
              /\ \A j \in LinesOf("progress") : j <= k
              /\ stdout[k].msg = "complete with failed chunks"

\* Every run that returns after a chunk failed has reported the failed
\* chunks in a progress line, the one that ends the chunk loop.
C25_FailedChunksReported ==
    (result.some /\ failed_chunks # <<>>) =>
        \E k \in LinesOf("progress") :
            stdout[k].msg = "complete with failed chunks" /\ stdout[k].n = 100

\* ---------------------------------------------------------------- C26
\* C26 (as claimed): a provider outside ollama, openai and claude is rejected
\* before any work is done: no probe, no chunking, no inference call, no
\* result.
C26_UnknownProviderRejected ==
    provider \notin {"ollama", "openai", "claude"} =>
        /\ probes = 0 /\ infer = 0
        /\ all_chunks = <<>>
        /\ ~result.some
        /\ pc = "exit" => exit_code = 1

\* ---------------------------------------------------------------- C27
ErrorLines(lines) == { k \in 1..Len(lines) : lines[k].type = "error" }
ResultLines(lines) == { k \in 1..Len(lines) : lines[k].type = "result" }

\* C27: a command object whose command is none of the four known ones makes
\* main print exactly one error line and no result line and exit with a
\* non-zero status, and no transcription, analysis or probe is run.
C27_UnknownCommand ==
    (f_pc = "done" /\ f_args.stdin = "object" /\ f_args.command \notin KnownCommands) =>
        /\ Cardinality(ErrorLines(f_ret.stdout)) = 1
        /\ ResultLines(f_ret.stdout) = {}
        /\ f_ret.exit_code # 0
        /\ f_ret.ran = <<>>
        /\ f_ret.requests = 0

\* C27 (witness): main has run on the command "bogus" and printed its one
\* error line.
C27_Witness ==
    /\ f_pc = "done"
    /\ f_args.stdin = "object"
    /\ f_args.command = "bogus"
    /\ f_ret.stdout = <<Error("Unknown command")>>
    /\ f_ret.exit_code = 1

\* ---------------------------------------------------------------- C28
RECURSIVE FoundUpTo(_)
FoundUpTo(c) == IF c = 0 THEN 0 ELSE ident[c].found + FoundUpTo(c - 1)

\* The bound on the inference calls of a run: three per chunk, one per
\* identified section that is not routine, and the three calls after the loop.
CallBound == MAX_RETRIES * Len(all_chunks) + FoundUpTo(Len(ident)) + 3

\* C28: when every request returns, an analyze run comes to its end, having
\* printed either a result line or an error line (not both); and at every
\* moment the inference calls made stay within three per chunk plus one per
\* identified non-routine section plus the three calls after the loop.
C28_TerminatesWithinBound ==
    /\ <>(/\ pc = "exit"
          /\ (LinesOf("result") # {}) # (LinesOf("error") # {}))
    /\ [](infer <= CallBound)

\* C28 (witness): a run over the largest transcript has ended with a result
\* after using every call the bound allows.
C28_Witness ==
    /\ pc = "exit"
    /\ result.some
    /\ Len(all_chunks) = MaxChunks
    /\ FoundUpTo(Len(ident)) > 0
    /\ infer = CallBound

\* ---------------------------------------------------------------- C29
\* The section of a pass is one analyze_section_detail correlates: an object
\* of another category than routine, with its category and description.
Correlates(section) ==
    /\ section.t = "obj"
    /\ HasKey(section, "category") /\ HasKey(section, "description")
    /\ GetOr(section, "category", Null) # Str(<<"routine">>)

\* Each phrase of the section, searched on its own in all the segments of
\* the chunk, is found.
StartResolves(section) ==
    ~find_phrase_timestamp(GetOr(section, "start_phrase", Str(<<>>)), f_args.segments).none
EndResolves(section) ==
    ~find_phrase_timestamp(GetOr(section, "end_phrase", Str(<<>>)), f_args.segments).none

\* The pass of a section one of whose phrases is not found: nothing is
\* appended, call_ai is not called, and the loop goes on with the next
\* section (or ends when there is none).
DropsAndGoesOn ==
    /\ f_ret'.analyzed_sections = f_ret.analyzed_sections
    /\ f_ret'.infer = f_ret.infer
    /\ f_ret'.todo = Tail(f_ret.todo)
    /\ f_pc' = IF Tail(f_ret.todo) = <<>> THEN "done" ELSE "loop"

\* C29: the two phrases of a section are searched independently in the
\* segments of the chunk.  When either is not found the section is dropped
\* without a call of call_ai and without another try, and the loop goes on
\* with the sections that remain; when both are found (in either order) the
\* section is not dropped for its phrases: call_ai is called for it (in
\* these chunks a segment always lies between the two times).
C29_UnresolvedDropped ==
    [][(f_pc = "loop" /\ Correlates(Head(f_ret.todo))) =>
          IF StartResolves(Head(f_ret.todo)) /\ EndResolves(Head(f_ret.todo))
          THEN f_ret'.infer = f_ret.infer + 1 /\ f_ret'.todo = Tail(f_ret.todo)
          ELSE DropsAndGoesOn]_vars

\* C29 (witness): the first section of a chunk was dropped for its end
\* phrase without a call, and the second one was then analysed and appended.
C29_Witness ==
    /\ f_pc = "done"
    /\ Len(f_args.sections) = 2
    /\ Correlates(f_args.sections[1])
    /\ StartResolves(f_args.sections[1]) /\ ~EndResolves(f_args.sections[1])
    /\ f_ret.passes = <<[out |-> "skip", called |-> 0], [out |-> "append", called |-> 1]>>
    /\ Len(f_ret.analyzed_sections) = 1

\* ---------------------------------------------------------------- C30
\* The segments of the call that lie wholly within a..b.
Within(a, b) ==
    { n \in 1..Len(f_args.segments) :
        f_args.segments[n].start >= a /\ f_args.segments[n].end <= b }

\* The list holds the segments within a..b, each once and no other.
ExactlyWithin(list, a, b) ==
    /\ Len(list) = Cardinality(Within(a, b))
    /\ \A n \in Within(a, b) : InSeq(f_args.segments[n], list)
    /\ \A k \in 1..Len(list) : \E n \in Within(a, b) : list[k] = f_args.segments[n]

\* C30: the segments used for a section are exactly those that lie wholly
\* within start_time..end_time; when there is none the extraction is made
\* once more over the window widened by 5 seconds on each side, and when
\* that finds none either the section is given up without a call of call_ai;
\* otherwise call_ai is called once.
C30_SegmentsWithinWindow ==
    f_pc = "done" =>
        IF Within(f_args.start_time, f_args.end_time) # {}
        THEN /\ f_ret.used.extractions = 1
             /\ ExactlyWithin(f_ret.used.segments, f_args.start_time, f_args.end_time)
             /\ f_ret.detail.called = 1
        ELSE /\ f_ret.used.extractions = 2
             /\ ExactlyWithin(f_ret.used.segments, f_args.start_time - 5,
                              f_args.end_time + 5)
             /\ IF f_ret.used.segments = <<>>
                THEN f_ret.detail = NoDetail(0)
                ELSE f_ret.detail.called = 1

\* C30 (witness): no segment lay within the window, the widened window held
\* one, and call_ai was called for the section.
C30_Witness ==
    /\ f_pc = "done"
    /\ Within(f_args.start_time, f_args.end_time) = {}
    /\ f_ret.used.extractions = 2
    /\ Len(f_ret.used.segments) = 1
    /\ f_ret.detail.called = 1

\* C30 (witness): the widened window held no segment either and the section
\* was given up without a call.
C30_Skipped ==
    /\ f_pc = "done"
    /\ Within(f_args.start_time - 5, f_args.end_time + 5) = {}
    /\ f_ret.detail = NoDetail(0)

\* ---------------------------------------------------------------- C31
\* C31: for one section analyze_section_detail calls call_ai at most once;
\* no answer, an empty answer or an answer that parses to no quote gives no
\* section; a section that is returned came from one call, carries at least
\* one quote (the quotes parsed from the answer) and has an end time.
C31_OneCallAtLeastOneQuote ==
    f_pc = "done" =>
        /\ f_ret.called \in {0, 1}
        /\ (\/ ~f_args.answer.some
            \/ f_args.answer.text = <<>>
            \/ parse_quotes_response(f_args.answer.text) = <<>>) => ~f_ret.some
        /\ f_ret.some =>
              /\ f_ret.called = 1
              /\ Len(f_ret.val.quotes) >= 1
              /\ f_ret.val.quotes = parse_quotes_response(f_args.answer.text)
              /\ ~f_ret.val.end_time.none

\* C31 (witness): call_ai was called and its answer parsed to no quote, so
\* no section was returned.
C31_Witness ==
    /\ f_pc = "done"
    /\ f_ret.called = 1
    /\ f_args.answer.some /\ f_args.answer.text # <<>>
    /\ parse_quotes_response(f_args.answer.text) = <<>>
    /\ ~f_ret.some

\* C31 (witness): a section was returned with the quotes of the one call.
C31_Emitted ==
    /\ f_pc = "done"
    /\ f_ret.some /\ f_ret.called = 1
    /\ Len(f_ret.val.quotes) >= 1

\* ---------------------------------------------------------------- C32
\* The answer to pass k is a text that the refusal test lets through and
\* that parses to at least one section.
Yields(k) ==
    /\ f_args.answers[k].some
    /\ f_args.answers[k].text # <<>>
    /\ ~Refused(f_args.answers[k].text)
    /\ parse_section_response(f_args.answers[k].text) # <<>>

\* C32: identify_interesting_sections returns on the first pass whose answer
\* is not empty, is not taken for a refusal and parses to at least one
\* section: it returns the sections parsed from that answer and nothing
\* else, and has called call_ai once per pass up to that one and not again;
\* when no pass yields, it raises after MAX_RETRIES calls.
C32_ReturnsOnFirstYield ==
    f_pc = "done" =>
        IF \E k \in 1..MAX_RETRIES : Yields(k)
        THEN \E k \in 1..MAX_RETRIES :
                /\ Yields(k)
                /\ \A j \in 1..(k - 1) : ~Yields(j)
                /\ f_ret.out = "return"
                /\ f_ret.val = parse_section_response(f_args.answers[k].text)
                /\ f_ret.attempt = k
                /\ f_ret.calls = k
        ELSE f_ret.out = "raise" /\ f_ret.calls = MAX_RETRIES

\* C32 (witness): the second pass yielded one section after a first pass
\* that did not yield, and the function returned that section after two
\* calls although the answer to the third pass held two other sections.
C32_Witness ==
    /\ f_pc = "done"
    /\ ~Yields(1) /\ Yields(2) /\ Yields(3)
    /\ f_args.answers[2] # f_args.answers[3]
    /\ f_ret.out = "return"
    /\ f_ret.val = <<Unmatched>>
    /\ f_ret.calls = 2

\* ---------------------------------------------------------------- C33
\* The chunk a section of the list was found in, by its start time (every
\* phrase of the answers is spoken in the first segment of a chunk).
ChunkOf(section) ==
    CHOOSE c \in 0..Len(all_chunks) :
        IF c = 0
        THEN \A d \in 1..Len(all_chunks) :
                section.start_time # format_display_time(all_chunks[d].segments[1].start)
        ELSE section.start_time = format_display_time(all_chunks[c].segments[1].start)

\* The list is in chunk order, and within a chunk in the order of the
\* answer (the sections of a chunk come from passes over <<Hate, Routine>>).
InChunkOrder(sections) ==
    \A k \in 1..(Len(sections) - 1) :
        \/ ChunkOf(sections[k]) < ChunkOf(sections[k + 1])
        \/ /\ ChunkOf(sections[k]) = ChunkOf(sections[k + 1])
           /\ sections[k].category = Str(<<"hate">>)
           /\ sections[k + 1].category = Str(<<"routine">>)

\* The blocks of the sections of a list, as a file holds them when each
\* section was written once, in the order of the list.
BlocksOf(sections) == [n \in 1..Len(sections) |-> Part("block", Shown(sections[n]))]

\* A step of the loop over the chunks: the chunk in hand stays or gives way
\* to the next one; a pass over a section takes the first section left of
\* the parser's list, and the section it adds is one of the chunk in hand
\* and becomes the last of the list, the rest of the list unchanged; the
\* section added is written in the same step, as Wrote says; no other step
\* of the loop touches the file.
LoopStep(Wrote(_)) ==
    /\ pc \in {"identify", "sections"} =>
          \/ chunk_i' = chunk_i
          \/ chunk_i' = chunk_i + 1 /\ pc' \in {"identify", "complete"}
    /\ pc = "sections" /\ pc' # "exit" => todo' = Tail(todo)
    /\ pc = "identify" => analyzed_sections' = analyzed_sections /\ FileUntouched
    /\ pc = "sections" =>
          \/ analyzed_sections' = analyzed_sections /\ FileUntouched
          \/ /\ Len(analyzed_sections') = Len(analyzed_sections) + 1
             /\ SubSeq(analyzed_sections', 1, Len(analyzed_sections)) = analyzed_sections
             /\ ChunkOf(analyzed_sections'[Len(analyzed_sections')]) = chunk_i
             /\ analyzed_sections'[Len(analyzed_sections')].category
                   = GetOr(Head(todo), "category", Null)
             /\ Wrote(analyzed_sections'[Len(analyzed_sections')])

\* C33 (as claimed): the chunks are gone through one at a time in
\* increasing order and the sections of a chunk in the order of the
\* parser's list; each section is appended and written to the file in the
\* pass that made it, before any later call: whenever the loop is about to
\* make a call, the file is the header and the blocks of the list; so the
\* list and the sections of the result are in chunk order and, within a
\* chunk, in the order of the answer.
C33_ChunkThenSectionOrder ==
    /\ [](pc \in {"identify", "sections", "complete"} =>
            /\ InChunkOrder(analyzed_sections)
            /\ output_file = <<FileHeader>> \o BlocksOf(analyzed_sections))
    /\ [](result.some => InChunkOrder(result.sections))
    /\ [][LoopStep(WroteBlock)]_vars

\* C33 (amended): the same, but that the write of a section may fail, which
\* is logged and leaves the file as it was or with a cut block: whenever
\* the loop is about to make a call, every section of the list has had its
\* one write, the complete blocks of the file are blocks of sections of the
\* list in the order of the list, and the sections without a complete block
\* are as many as the failures logged.
C33_WrittenUnlessFails ==
    /\ [](pc \in {"identify", "sections", "complete"} =>
            /\ InChunkOrder(analyzed_sections)
            /\ output_file[1] = FileHeader
            /\ Blocks(output_file) = Tail(output_file)
            /\ InOrder(Blocks(output_file), analyzed_sections)
            /\ Len(WholeBlocks(output_file)) + Len(file_log) = Len(analyzed_sections))
    /\ [](result.some => InChunkOrder(result.sections))
    /\ [][LoopStep(WroteBlock) \/ LoopStep(WriteFailed)]_vars

\* C33 (witness): a result with sections of two chunks, two of them of the
\* second chunk, each written to the file in its turn: the file holds the
\* header, the overview and their blocks in the order of the list.
C33_Witness ==
    /\ result.some
    /\ Len(result.sections) >= 3
    /\ ChunkOf(result.sections[1]) = 1
    /\ ChunkOf(result.sections[Len(result.sections)]) = 2
    /\ ChunkOf(result.sections[Len(result.sections) - 1]) = 2
    /\ output_file = <<FileHeader>> \o Overview(result.description)
                        \o BlocksOf(result.sections)

\* ---------------------------------------------------------------- C34
\* n is an integer nearest to num / den.
Nearest(n, num, den) ==
    /\ 2 * (n * den - num) <= den
    /\ 2 * (num - n * den) <= den

\* C34: a run over one chunk reports the indeterminate -1 and no percentage
\* per chunk; any other run reports one percentage at the end of each chunk,
\* failed or not, the k-th being 100 * k / total rounded to a nearest
\* integer, and the report of the last chunk is 100.
C34_OneReportPerChunk ==
    LET total == f_args.total_chunks
        reports == f_ret.reports
    IN IF total = 1
       THEN reports = <<-1>>
       ELSE /\ Len(reports) = 1 + f_ret.completed_chunks
            /\ reports[1] = 0
            /\ \A k \in 1..f_ret.completed_chunks :
                  Nearest(reports[k + 1], 100 * k, total)
            /\ (f_pc = "done" /\ total > 0) =>
                  /\ f_ret.completed_chunks = total
                  /\ reports[Len(reports)] = 100

\* C34 (witness): a run over three chunks, the last of which failed, has
\* reported 33, 67 and 100.
C34_Witness ==
    /\ f_pc = "done"
    /\ f_args.total_chunks = 3
    /\ f_ret.failed
    /\ f_ret.reports = <<0, 33, 67, 100>>

\* C34 (witness): a run over one chunk has ended with the report -1 alone.
C34_Indeterminate ==
    /\ f_pc = "done"
    /\ f_args.total_chunks = 1
    /\ f_ret.completed_chunks = 1
    /\ f_ret.reports = <<-1>>

\* ---------------------------------------------------------------- C35
\* The percentages of the progress lines, the indeterminate -1 left out.
Percentages == { k \in LinesOf("progress") : stdout[k].n # -1 }

\* C35 (as claimed): the percentages reported in a run never decrease from
\* one progress line to the next.
C35_ProgressNeverDecreases ==
    \A j, k \in Percentages : j < k => stdout[j].n <= stdout[k].n

\* Up to the report that ends the chunk loop the percentages never decrease.
C35_LoopNeverDecreases ==
    pc \in {"main", "probe", "header", "identify", "sections", "complete"} =>
        \A j, k \in Percentages : j < k => stdout[j].n <= stdout[k].n

\* ---------------------------------------------------------------- C36
\* The overviews generate_video_summary_from_sections can make of a list.
Summaries(sections) ==
    { generate_video_summary_from_sections(sections, answer).summary :
        answer \in SummaryAnswers }

\* The step put the overview into the file: after the header, before the
\* parts the file held, and nothing is logged.
OverviewPut(summary) ==
    /\ output_file' = <<output_file[1]>> \o Overview(summary) \o Tail(output_file)
    /\ file_log' = file_log

\* The prepending failed in the step: the failure is logged, and the file is
\* as it was or holds what was written of the header and the overview.
OverviewFailed(summary) ==
    /\ file_log' = Append(file_log, "Could not prepend summary to file")
    /\ \/ output_file' = output_file
       \/ IsPrefix(output_file', <<output_file[1]>> \o Overview(summary))

\* A step of the end of a run: tag extraction starts only from the step that
\* follows the chunk loop and runs the safety check, with every chunk gone
\* through, and leaves the file alone; the overview follows the tags, the
\* title the overview, the result the title; the overview is made with a
\* call of the model over the final list, becomes the description, and is
\* put into the file in the same step, as Put says; the tags, the overview
\* and the section list are set in their own step and not touched
\* afterwards, and the title leaves the file alone.
EndStep(Put(_)) ==
    /\ pc' = "tags" /\ pc # "tags" =>
          /\ pc = "complete"
          /\ completed_chunks = Len(all_chunks)
          /\ analyzed_sections' = WithDefault(analyzed_sections, cmd_segments, cmd_text.s)
    /\ pc = "tags" => FileUntouched
    /\ pc' = "summary" /\ pc # "summary" => pc = "tags" /\ result'.tags # Null
    /\ pc' = "title" /\ pc # "title" =>
          /\ pc = "summary"
          /\ infer' = infer + 1
          /\ result'.description \in Summaries(analyzed_sections)
          /\ Put(result'.description)
    /\ result'.some /\ ~result.some => pc = "title"
    /\ pc \in {"tags", "summary", "title"} => analyzed_sections' = analyzed_sections
    /\ pc \in {"summary", "title"} => result'.tags = result.tags
    /\ pc = "title" => result'.description = result.description /\ FileUntouched

\* What every result of a run shows of its end: every chunk was gone
\* through, the tags and the overview are set, the sections are the final
\* list, which is not empty, and the last progress lines of the run are
\* those of the four steps.
EndOfRun ==
    result.some =>
        /\ completed_chunks = Len(all_chunks)
        /\ result.tags # Null
        /\ result.description \in Summaries(analyzed_sections)
        /\ result.sections = analyzed_sections
        /\ result.sections_count >= 1
        /\ Len(stdout) >= 5
        /\ [k \in 1..4 |-> stdout[Len(stdout) - 5 + k]]
              = <<Progress(92), Progress(95), Progress(98), Progress(100)>>

\* C36 (as claimed): in a run that returns, the tags, the overview with its
\* place in the file and the title come in that order after the last chunk
\* and after the safety check; the overview is made from the final list,
\* which is never empty, is put into the file after the header, and is the
\* description of the result, whose sections are that list.
C36_EndOfRunInOrder ==
    /\ [][EndStep(OverviewPut)]_vars
    /\ [](pc \in {"tags", "summary", "title"} => Len(analyzed_sections) >= 1)
    /\ []EndOfRun

\* C36 (amended): the same, but that the prepending may fail, which is
\* logged and leaves the file as it was or with what was written of the
\* header and the overview; the run goes on to the title and returns with
\* the overview as its description.
C36_PrependedUnlessFails ==
    /\ [][EndStep(OverviewPut) \/ EndStep(OverviewFailed)]_vars
    /\ [](pc \in {"tags", "summary", "title"} => Len(analyzed_sections) >= 1)
    /\ []EndOfRun

\* C36 (witness): a run over a transcript without speech has returned the
\* synthetic section alone, with an overview made by the model, which
\* stands in the file between the header and the block of the section.
C36_Witness ==
    /\ result.some
    /\ all_chunks = <<>>
    /\ result.sections_count = 1
    /\ result.sections[1].start_time = <<"0", ":", "00">>
    /\ result.description.kind = "answer"
    /\ output_file = <<FileHeader>> \o Overview(result.description)
                        \o BlocksOf(result.sections)

\* C36 (witness): a run over two chunks has returned sections found by the
\* model, with the fallback overview.
C36_Found ==
    /\ result.some
    /\ Len(all_chunks) = 2
    /\ result.sections_count >= 2
    /\ result.description.kind = "notable sections"

\* ---------------------------------------------------------------- C37
\* The words of the phrase of the call, and the number of them matched in
\* segment n (its score times the number of phrase words; a segment
\* without words is passed over).
PhraseWords == Words(Strip(LowerText(f_args.phrase.s), WS))
Matched(n) ==
    LET segment_words == Words(LowerText(Strip(LowerText(f_args.segments[n].text), WS)))
    IN IF segment_words = <<>> THEN 0 ELSE Matches(PhraseWords, segment_words, 1, 1)
MostMatched == Max({0} \cup { Matched(n) : n \in 1..Len(f_args.segments) })

\* C37: for a phrase that is a text, find_phrase_timestamp returns the
\* start of the earliest segment whose score is the greatest of the whole
\* list when that score is at least the threshold, and none otherwise; an
\* empty phrase, a phrase without words and an empty list give none.
C37_EarliestBestSegment ==
    (f_pc = "done" /\ f_args.phrase.t = "str") =>
        /\ ~f_ret.exc
        /\ IF PhraseWords = <<>> \/ f_args.segments = <<>>
           THEN f_ret.none
           ELSE IF MostMatched * ThresholdDen >= ThresholdNum * Len(PhraseWords)
           THEN /\ ~f_ret.none
                /\ \E n \in 1..Len(f_args.segments) :
                      /\ Matched(n) = MostMatched
                      /\ \A k \in 1..(n - 1) : Matched(k) < MostMatched
                      /\ f_ret.t = f_args.segments[n].start
           ELSE f_ret.none

\* C37 (witness): two segments reach the greatest score, a third scores
\* less, and the start of the first of the two is returned.
C37_Witness ==
    /\ f_pc = "done" /\ f_args.phrase.t = "str"
    /\ Len(f_args.segments) = 3
    /\ Matched(1) < MostMatched
    /\ Matched(2) = MostMatched /\ Matched(3) = MostMatched
    /\ ~f_ret.none /\ f_ret.t = f_args.segments[2].start

\* C37 (witness): the greatest score is exactly the threshold and a start is
\* returned.
C37_AtThreshold ==
    /\ f_pc = "done" /\ f_args.phrase.t = "str"
    /\ PhraseWords # <<>>
    /\ MostMatched * ThresholdDen = ThresholdNum * Len(PhraseWords)
    /\ ~f_ret.none

\* C37 (witness): a word of the phrase is matched but the greatest score is
\* below the threshold, and none is returned.
C37_BelowThreshold ==
    /\ f_pc = "done" /\ f_args.phrase.t = "str"
    /\ MostMatched > 0
    /\ MostMatched * ThresholdDen < ThresholdNum * Len(PhraseWords)
    /\ f_ret.none

\* ---------------------------------------------------------------- C38
\* The segment words taken so far, in the order of the phrase words.
TakenWords == { k \in 1..Len(f_ret.taken) : f_ret.taken[k] # 0 }

\* C38: the cursor never moves back; no segment word is taken by two phrase
\* words (the words taken lie ever further right, each before the cursor);
\* the matches are the words taken and never more than the segment words;
\* after a phrase word that found no match no later phrase word is matched;
\* and the loop ends with the number of matches the score is made of.
C38_SinglePassMatching ==
    /\ [][f_ret'.segment_idx >= f_ret.segment_idx]_vars
    /\ [](f_pc \in {"scan", "done"} =>
            /\ \A j, k \in TakenWords : j < k => f_ret.taken[j] < f_ret.taken[k]
            /\ \A k \in TakenWords : f_ret.taken[k] < f_ret.segment_idx
            /\ f_ret.matches = Cardinality(TakenWords)
            /\ f_ret.matches <= Len(f_args.segment_words)
            /\ \A j, k \in 1..Len(f_ret.taken) :
                  (j < k /\ f_ret.taken[j] = 0) => f_ret.taken[k] = 0
            /\ f_pc = "done" =>
                  f_ret.matches = Matches(f_args.phrase_words, f_args.segment_words, 1, 1))

\* C38 (witness): the second phrase word found no match although a segment
\* word before the cursor would have matched it, and the third phrase
\* word, which is among the segment words, was not matched after it.
C38_Witness ==
    /\ f_pc = "done"
    /\ Len(f_ret.taken) = 3
    /\ f_ret.taken[1] = 2 /\ f_ret.taken[2] = 0 /\ f_ret.taken[3] = 0
    /\ WordMatch(f_args.phrase_words[2], f_args.segment_words[1])
    /\ \E j \in 1..Len(f_args.segment_words) :
          f_args.segment_words[j] = f_args.phrase_words[3]
    /\ f_ret.matches = 1

\* C38 (witness): a phrase of three equal words against a segment of two:
\* each segment word was taken once, and the third phrase word found none.
C38_TakenOnce ==
    /\ f_pc = "done"
    /\ f_args.phrase_words = <<<<"a">>, <<"a">>, <<"a">>>>
    /\ f_args.segment_words = <<<<"a">>, <<"a">>>>
    /\ f_ret.taken = <<1, 2, 0>>

\* ---------------------------------------------------------------- C39
\* C39: chunk_transcript returns no chunk without segments; the chunks are
\* numbered 1, 2, ... in the order returned, which is the order of their
\* windows in time, whether or not windows were left out between them; the
\* segments of a chunk start within its window, a multiple of the window
\* duration from 0; and an empty segment list gives no chunk.
C39_DenseNumbering ==
    pc = "chunked" =>
        /\ cmd_segments = <<>> => all_chunks = <<>>
        /\ \A n \in 1..Len(all_chunks) :
              /\ all_chunks[n].segments # <<>>
              /\ all_chunks[n].number = n
              /\ all_chunks[n].start_time % (ChunkMinutes * 60) = 0
              /\ \A k \in 1..Len(all_chunks[n].segments) :
                    /\ all_chunks[n].segments[k].start >= all_chunks[n].start_time
                    /\ all_chunks[n].segments[k].start
                          < all_chunks[n].start_time + ChunkMinutes * 60
        /\ \A n \in 1..(Len(all_chunks) - 1) :
              all_chunks[n].start_time < all_chunks[n + 1].start_time

\* C39 (witness): two windows without a segment lie between the first chunk
\* and the second, which is numbered 2 and starts at the fourth window.
C39_Witness ==
    /\ pc = "chunked"
    /\ Len(all_chunks) = 2
    /\ all_chunks[1].start_time = 0
    /\ all_chunks[2].start_time = 3 * ChunkMinutes * 60
    /\ all_chunks[2].number = 2

\* C39 (witness): the empty segment list was chunked into no chunk.
C39_Empty ==
    /\ pc = "chunked"
    /\ cmd_segments = <<>>
    /\ all_chunks = <<>>

\* ---------------------------------------------------------------- C40
\* The error lines that say the server cannot be reached, and those that
\* say the model failed to load or to respond.
ServerErrors == { Error("cannot connect"), Error("server returned HTTP status") }
ModelErrors == { Error("model failed"), Error("model loading timed out") }

\* C40 (as claimed): a first request that is refused, answered with another
\* status or timed out (in connecting or after) is reported as a server error, and a model error is
\* reported only when the first request succeeded and the second failed or
\* timed out.
C40_ServerDownDistinguished ==
    f_pc = "done" =>
        /\ f_args.step1 \in {"refused", "connect_timeout", "status", "timeout"} =>
              /\ f_ret.errors # <<>>
              /\ \A k \in 1..Len(f_ret.errors) : f_ret.errors[k] \in ServerErrors
        /\ (\E k \in 1..Len(f_ret.errors) : f_ret.errors[k] \in ModelErrors) =>
              /\ f_args.step1 \in Reachable
              /\ f_args.step2 \notin {"ok", "garbled"}

\* With the timeout of a first request that had connected set aside: a first
\* request that is refused, cannot connect in time or is answered with
\* another status is reported as a server error,
\* and a model error is otherwise reported only when the first request
\* succeeded and the second failed or timed out.
C40_DistinguishedButTimeout ==
    f_pc = "done" =>
        /\ f_args.step1 \in {"refused", "connect_timeout", "status"} =>
              /\ f_ret.errors # <<>>
              /\ \A k \in 1..Len(f_ret.errors) : f_ret.errors[k] \in ServerErrors
        /\ (\E k \in 1..Len(f_ret.errors) : f_ret.errors[k] \in ModelErrors) =>
              \/ f_args.step1 = "timeout"
              \/ /\ f_args.step1 \in Reachable
                 /\ f_args.step2 \notin {"ok", "garbled"}
====
